---- MODULE Spec2Model ----
(***************************************************************************)
(* Model of the benchmark-result analysis scripts: the regex line parsers, *)
(* the calibration readers, the overhead correction and the robust         *)
(* statistics (trimmed mean, median, min, max, jitter).                    *)
(*                                                                         *)
(* A log line is a sequence of tokens; a token is a literal piece of text  *)
(* or a run of decimal digits carrying its value.  The regular expressions *)
(* of the scripts are operators that scan such a token sequence.           *)
(* Counter values are integers.  Averages, medians and percentages are     *)
(* exact rationals in lowest terms, with NaN, infinity and a raised        *)
(* division error as separate kinds of result.                             *)
(***************************************************************************)
EXTENDS Integers, Sequences, FiniteSets

VARIABLES
    pc,            \* position of the running script
    parser,        \* which parse function is running
    calibration,   \* the calibration dict handed to the parser
    lines,         \* the lines of the log file read so far
    current,       \* the parser's record under construction (None or a dict);
                   \* in main, the RTOS of the iteration
    measurements,  \* the parser's output list
    summary,       \* what plot_inheritance_metrics returned
    jitter,        \* what plot_cycle_jitter computed
    values,        \* a metric series handed to the statistics functions
    trim_fraction, \* the trim fraction handed to robust_average
    stats,         \* what the statistics functions returned
    overheads,     \* the calibration reader's collected values per key
    profiles,      \* the profile list handed to adjust_profiles
    adjusted,      \* what adjust_profiles returned
    fs,            \* the working directory: path -> content of the file
    todo,          \* the loop items main has still to process
    results,       \* what main has collected per loop item
    written,       \* the paths main has written, in order
    raised,        \* the exception that ended main (NotRaised while none)
    current_rel,   \* parse_overall_performance: the pending Relative Time
    relative_times,   \* parse_overall_performance: first returned list
    processing_times, \* parse_overall_performance: second returned list
    line_index,    \* parse_test_file: i, the index of the line the loop is at
    data           \* parse_test_file: the dict of lists it fills and returns

vars == <<pc, parser, calibration, lines, current, measurements, summary, jitter,
          values, trim_fraction, stats, overheads, profiles, adjusted,
          fs, todo, results, written, raised,
          current_rel, relative_times, processing_times, line_index, data>>

parseVars == <<parser, calibration, lines, current, measurements, summary, jitter>>
statVars == <<values, trim_fraction, stats>>
lockVars == <<overheads, profiles, adjusted>>
runVars == <<fs, todo, results, written, raised>>
pairVars == <<current_rel, relative_times, processing_times>>
testVars == <<line_index, data>>

(***************************************************************************)
(* Bounds of the model.                                                    *)
(***************************************************************************)
MaxLines == 2        \* lines of a log file in the general parser runs
MaxRaw == 1          \* largest raw counter value on a line
MaxCal == 1          \* largest calibration overhead

RawVals == 0..MaxRaw
CalVals == 0..MaxCal

(***************************************************************************)
(* Tokens and lines.                                                       *)
(***************************************************************************)
Lit(s) == [s |-> s, n |-> 0]
Digits(v) == [s |-> "\\d+", n |-> v]
Space == Lit(" ")
IsDigits(tok) == tok.s = "\\d+"

\* The text "<label>[ Count]:<ws spaces><val>".
MetricLine(label, extra, ws, val) ==
    <<Lit(label)>> \o (IF extra THEN <<Lit(" Count")>> ELSE <<>>) \o <<Lit(":")>>
        \o [i \in 1..ws |-> Space] \o <<Digits(val)>>

\* The text "Profile Point: A" / "Profile Entry: A".
DelimLine(kind) == <<Lit(kind), Space, Lit("A")>>

JunkLine == <<Lit("Relative Time:"), Space, Digits(0)>>

Labels == {"Cycle Count", "ICache Miss", "DCache Access", "DCache Miss"}
Keys == {"cycle", "icache", "dcache_access", "dcache_miss"}
Delims == {"Profile Point:", "Profile Entry:"}

KeyOf(label) ==
    CASE label = "Cycle Count" -> "cycle"
      [] label = "ICache Miss" -> "icache"
      [] label = "DCache Access" -> "dcache_access"
      [] label = "DCache Miss" -> "dcache_miss"

(***************************************************************************)
(* Python and regex primitives.                                            *)
(***************************************************************************)
NoMatch == 0 - 1

RECURSIVE LStrip(_)
LStrip(line) ==
    IF line # <<>> /\ Head(line) = Space THEN LStrip(Tail(line)) ELSE line

RECURSIVE RStrip(_)
RStrip(line) ==
    IF line # <<>> /\ line[Len(line)] = Space
    THEN RStrip(SubSeq(line, 1, Len(line) - 1)) ELSE line

\* str.strip()
Strip(line) == RStrip(LStrip(line))

\* str.startswith(prefix), the prefix being one literal
StartsWith(line, prefix) == line # <<>> /\ line[1] = Lit(prefix)

\* \s* / \s+ : the first position at or after p that holds no whitespace
RECURSIVE SkipWs(_, _)
SkipWs(line, p) ==
    IF p <= Len(line) /\ line[p] = Space THEN SkipWs(line, p + 1) ELSE p

\* The pattern  <label>(?: Count)?:\s+(\d+)  or, with optCount FALSE and
\* minWs 0,  <label>:\s*(\d+)  tried at position i of the line: the captured
\* number, or NoMatch.
MatchAt(line, i, label, optCount, minWs) ==
    LET n == Len(line)
        p1 == IF i <= n /\ line[i] = Lit(label) THEN i + 1 ELSE 0
        p2 == IF p1 # 0 /\ optCount /\ p1 <= n /\ line[p1] = Lit(" Count")
              THEN p1 + 1 ELSE p1
        p3 == IF p2 # 0 /\ p2 <= n /\ line[p2] = Lit(":") THEN p2 + 1 ELSE 0
        p4 == IF p3 # 0 THEN SkipWs(line, p3) ELSE 0
    IN  IF p3 # 0 /\ p4 - p3 >= minWs /\ p4 <= n /\ IsDigits(line[p4])
        THEN line[p4].n ELSE NoMatch

\* re.match(r'<label>:\s+(\d+)', line): the label form without the optional word
ReMatchPlain(line, label) == MatchAt(line, 1, label, FALSE, 1)

\* re.match(r'<label>(?: Count)?:\s+(\d+)', line)
ReMatchMetric(line, label) == MatchAt(line, 1, label, TRUE, 1)

\* max(val, 0) without the clamp
Unclamped(val) == val

\* max(val, 0)
Clamp(val) == IF val > 0 THEN val ELSE 0

(***************************************************************************)
(* Numbers: exact rationals in lowest terms, NaN, infinity, raised error.  *)
(***************************************************************************)
Abs(x) == IF x < 0 THEN 0 - x ELSE x

RECURSIVE GCD(_, _)
GCD(a, b) == IF b = 0 THEN a ELSE GCD(b, a % b)

\* The rational n/d (d # 0) in lowest terms with a positive denominator.
Rat(n, d) ==
    LET g == GCD(Abs(n), Abs(d))
        sgn == IF d < 0 THEN 0 - 1 ELSE 1
    IN  [kind |-> "num", num |-> sgn * (n \div g), den |-> sgn * (d \div g)]

NaN == [kind |-> "nan", num |-> 0, den |-> 1]
Inf == [kind |-> "inf", num |-> 0, den |-> 1]
ZeroDivisionError == [kind |-> "err", num |-> 0, den |-> 1]

Zero == Rat(0, 1)
IsZero(x) == x.kind = "num" /\ x.num = 0
Times(x, k) == IF x.kind = "num" THEN Rat(x.num * k, x.den) ELSE x

\* x / y where y is a numpy float64: a zero divisor gives nan or inf (with a
\* RuntimeWarning), never an exception.
NpDivide(x, y) ==
    IF x.kind # "num" \/ y.kind # "num" THEN NaN
    ELSE IF y.num = 0 THEN (IF x.num = 0 THEN NaN ELSE Inf)
    ELSE Rat(x.num * y.den, x.den * y.num)

\* x / y on Python numbers: a zero divisor raises ZeroDivisionError.
PyDivide(x, y) ==
    IF y.num = 0 THEN ZeroDivisionError
    ELSE Rat(x.num * y.den, x.den * y.num)

(***************************************************************************)
(* Sequences of numbers: sum, sort, min, max, mean, median.                *)
(***************************************************************************)
RECURSIVE Sum(_)
Sum(s) == IF s = <<>> THEN 0 ELSE Head(s) + Sum(Tail(s))

RECURSIVE Insert(_, _)
Insert(x, s) ==
    IF s = <<>> THEN <<x>>
    ELSE IF x <= Head(s) THEN <<x>> \o s
    ELSE <<Head(s)>> \o Insert(x, Tail(s))

\* np.sort(arr) / sorted(values): ascending
RECURSIVE Sort(_)
Sort(s) == IF s = <<>> THEN <<>> ELSE Insert(Head(s), Sort(Tail(s)))

\* the builtins min(values) and max(values) of a non-empty list
RECURSIVE PyMin(_)
PyMin(s) ==
    IF Len(s) = 1 THEN s[1]
    ELSE LET m == PyMin(Tail(s)) IN IF Head(s) <= m THEN Head(s) ELSE m

RECURSIVE PyMax(_)
PyMax(s) ==
    IF Len(s) = 1 THEN s[1]
    ELSE LET m == PyMax(Tail(s)) IN IF Head(s) >= m THEN Head(s) ELSE m

\* np.mean(arr) / statistics.mean(values) of a non-empty sequence
Mean(s) == Rat(Sum(s), Len(s))

\* a median that takes the lower middle element of an even-sized list
MedianLow(s) ==
    LET n == Len(s)
        a == Sort(s)
    IN  IF n = 0 THEN NaN ELSE Rat(a[(n + 1) \div 2], 1)

\* np.median(values): NaN on an empty list
NpMedian(s) ==
    LET n == Len(s)
        a == Sort(s)
    IN  IF n = 0 THEN NaN
        ELSE IF n % 2 = 1 THEN Rat(a[(n + 1) \div 2], 1)
        ELSE Rat(a[n \div 2] + a[n \div 2 + 1], 2)

\* the trim count rounded up instead of cut off
TrimCountCeil(n, f) == (n * f[1] + f[2] - 1) \div f[2]

\* int(n * trim_fraction), the fraction f = <<numerator, denominator>> >= 0
TrimCount(n, f) == (n * f[1]) \div f[2]

\* robust_average with the slice taken one element short at the top
robust_average_short(vals, f) ==
    LET n == Len(vals)
        trim_count == TrimCount(n, f)
    IN  IF n = 0 THEN Zero
        ELSE IF n - 2 * trim_count <= 0 THEN Mean(vals)
        ELSE IF n - trim_count - 1 < trim_count + 1 THEN NaN
        ELSE Mean(SubSeq(Sort(vals), trim_count + 1, n - trim_count - 1))

\* robust_average with the slice taken from the list as it comes, unsorted
robust_average_unsorted(vals, f) ==
    LET n == Len(vals)
        trim_count == TrimCount(n, f)
    IN  IF n = 0 THEN Zero
        ELSE IF n - 2 * trim_count <= 0 THEN Mean(vals)
        ELSE Mean(SubSeq(vals, trim_count + 1, n - trim_count))

\* robust_average with the sum of the slice divided by the length of the list
robust_average_over_n(vals, f) ==
    LET n == Len(vals)
        trim_count == TrimCount(n, f)
    IN  IF n = 0 THEN Zero
        ELSE IF n - 2 * trim_count <= 0 THEN Mean(vals)
        ELSE Rat(Sum(SubSeq(Sort(vals), trim_count + 1, n - trim_count)), n)

\* robust_average(values, trim_fraction)
robust_average(vals, f) ==
    LET n == Len(vals)
        trim_count == TrimCount(n, f)
    IN  IF n = 0 THEN Zero
        ELSE IF n - 2 * trim_count <= 0 THEN Mean(vals)
        ELSE Mean(SubSeq(Sort(vals), trim_count + 1, n - trim_count))

DefaultTrim == <<1, 10>>

(***************************************************************************)
(* Dicts: functions whose domain is the set of keys present.               *)
(***************************************************************************)
None == [none |-> 0]
\* None in a variable that otherwise holds a \d+ value
NoRel == 0 - 1
EmptyDict == [k \in {} |-> 0]
Store(d, key, val) == [k \in DOMAIN d \cup {key} |-> IF k = key THEN val ELSE d[k]]
\* dict.get(key, default)
Get(d, key, default) == IF key \in DOMAIN d THEN d[key] ELSE default
\* truthiness of a dict or None
Truthy(d) == d # None /\ DOMAIN d # {}

\* list.append at the wrong end
Prepend(list, x) == <<x>> \o list

\* list.append
ListAppend(list, x) == Append(list, x)

(***************************************************************************)
(* parse_pmu_metrics / parse_inheritance_file / parse_benchmark_file.      *)
(***************************************************************************)
\* The label whose pattern is the first of the cascade to match the line, or
\* "" when none matches.  The cascade tries cycle, icache, dcache_access,
\* dcache_miss in this order and stops at the first match (continue).
FirstLabel(line) ==
    IF ReMatchMetric(line, "Cycle Count") # NoMatch THEN "Cycle Count"
    ELSE IF ReMatchMetric(line, "ICache Miss") # NoMatch THEN "ICache Miss"
    ELSE IF ReMatchMetric(line, "DCache Access") # NoMatch THEN "DCache Access"
    ELSE IF ReMatchMetric(line, "DCache Miss") # NoMatch THEN "DCache Miss"
    ELSE ""

\* val = float(m.group(1)) - calibration[key]; record[key] = max(val, 0)
StoreCorrected(rec, line, label, cal) ==
    LET key == KeyOf(label)
        val == ReMatchMetric(line, label) - cal[key]
    IN  Store(rec, key, Clamp(val))

IsDelimiter(line) ==
    StartsWith(line, "Profile Point:") \/ StartsWith(line, "Profile Entry:")

\* One iteration of the line loop of parse_pmu_metrics and of the second loop
\* of parse_inheritance_file (the two bodies are the same text).
BlockStep(raw) ==
    LET line == Strip(raw) IN
    IF IsDelimiter(line)
    THEN /\ measurements' = IF current # None
                            THEN ListAppend(measurements, current)
                            ELSE measurements
         /\ current' = EmptyDict
    ELSE IF current # None /\ FirstLabel(line) # ""
    THEN /\ current' = StoreCorrected(current, line, FirstLabel(line), calibration)
         /\ UNCHANGED measurements
    ELSE UNCHANGED <<current, measurements>>

\* One iteration of the line loop of parse_benchmark_file: no delimiter, a
\* record is closed by its DCache Miss line.
BenchmarkStep(raw) ==
    LET line == Strip(raw)
        label == FirstLabel(line) IN
    IF label = "" THEN UNCHANGED <<current, measurements>>
    ELSE IF label = "DCache Miss"
    THEN /\ measurements' = ListAppend(measurements,
                                StoreCorrected(current, line, label, calibration))
         /\ current' = EmptyDict
    ELSE /\ current' = StoreCorrected(current, line, label, calibration)
         /\ UNCHANGED measurements

BlockParsers == {"parse_pmu_metrics", "parse_inheritance_file"}
Parsers == BlockParsers \cup {"parse_benchmark_file"}

\* The parser reads the next line of its file; the line is any of Alphabet and
\* the file has at most max lines.
ReadLine(Alphabet, max) ==
    /\ pc = "parsing"
    /\ Len(lines) < max
    /\ \E raw \in Alphabet :
          /\ lines' = Append(lines, raw)
          /\ IF parser \in BlockParsers THEN BlockStep(raw) ELSE BenchmarkStep(raw)
    /\ UNCHANGED <<pc, parser, calibration, summary, jitter, statVars, lockVars, runVars, pairVars, testVars>>

\* the end of file with the test of the line loop, "current is not None"
BlockEofNotNone ==
    /\ pc = "parsing"
    /\ parser \in BlockParsers
    /\ measurements' = IF current # None
                       THEN ListAppend(measurements, current)
                       ELSE measurements
    /\ pc' = "parsed"
    /\ UNCHANGED <<parser, calibration, lines, current, summary, jitter, statVars, lockVars, runVars, pairVars, testVars>>

\* End of file of the block parsers: if current: measurements.append(current)
BlockEof ==
    /\ pc = "parsing"
    /\ parser \in BlockParsers
    /\ measurements' = IF Truthy(current)
                       THEN ListAppend(measurements, current)
                       ELSE measurements
    /\ pc' = "parsed"
    /\ UNCHANGED <<parser, calibration, lines, current, summary, jitter, statVars, lockVars, runVars, pairVars, testVars>>

\* End of file of parse_benchmark_file: return combined
BenchmarkEof ==
    /\ pc = "parsing"
    /\ parser = "parse_benchmark_file"
    /\ pc' = "parsed"
    /\ UNCHANGED <<parseVars, statVars, lockVars, runVars, pairVars, testVars>>

(***************************************************************************)
(* plot_inheritance_metrics and plot_cycle_jitter (inheritance test).      *)
(***************************************************************************)
\* [m.get(key, 0) for m in measurements]
Series(ms, key) == [i \in 1..Len(ms) |-> Get(ms[i], key, 0)]

\* The four statistics plot_inheritance_metrics computes for one metric list:
\* <key>_robust, <key>_median, <key>_min, <key>_max.
MetricStats(s) ==
    [robust |-> robust_average(s, DefaultTrim),
     median |-> NpMedian(s),
     min    |-> IF s # <<>> THEN PyMin(s) ELSE 0,
     max    |-> IF s # <<>> THEN PyMax(s) ELSE 0]

\* plot_inheritance_metrics(test_file, measurements, rtos): the returned dict
PlotInheritanceMetrics ==
    /\ pc = "parsed"
    /\ parser = "parse_inheritance_file"
    /\ summary' = [k \in Keys |-> MetricStats(Series(measurements, k))]
    /\ pc' = "aggregated"
    /\ UNCHANGED <<parser, calibration, lines, current, measurements, jitter,
                   statVars, lockVars, runVars, pairVars, testVars>>

\* the percentage of plot_cycle_jitter without its guard
JitterPctUnguarded(item) ==
    Times(NpDivide(Rat(item.max - item.min, 1), item.robust), 100)

\* ((cycle_max - cycle_min) / cycle_robust * 100) if cycle_robust != 0 else 0
JitterPct(item) ==
    IF ~IsZero(item.robust)
    THEN Times(NpDivide(Rat(item.max - item.min, 1), item.robust), 100)
    ELSE Zero

\* plot_cycle_jitter(summary), for the summary item of one RTOS
PlotCycleJitter ==
    /\ pc = "aggregated"
    /\ jitter' = [abs |-> summary["cycle"].max - summary["cycle"].min,
                  pct |-> JitterPct(summary["cycle"])]
    /\ pc' = "done"
    /\ UNCHANGED <<parser, calibration, lines, current, measurements, summary,
                   statVars, lockVars, runVars, pairVars, testVars>>

(***************************************************************************)
(* The general parser runs: any parser, any calibration, any short file.   *)
(***************************************************************************)
Lines ==
    {DelimLine(d) : d \in Delims}
    \cup {MetricLine(l, e, 1, v) : l \in Labels, e \in BOOLEAN, v \in RawVals}
    \cup {<<Space>> \o MetricLine("Cycle Count", FALSE, 1, v) : v \in RawVals}
    \cup {JunkLine}

Calibrations ==
    {[cycle |-> c, icache |-> o, dcache_access |-> o, dcache_miss |-> o] :
        c \in CalVals, o \in CalVals}

IdleStat == [kind |-> "none"]

\* no exception; an exception of open() names the path and the mode
NotRaised == [exc |-> "", path |-> <<>>, mode |-> ""]
NoData == [relative_times |-> <<>>, locking_ops |-> <<>>, profiles |-> <<>>]
FileNotFoundError(path, mode) == [exc |-> "FileNotFoundError", path |-> path, mode |-> mode]

\* the variables of main and of the pairing parser while neither runs
IdleRun ==
    /\ fs = EmptyDict
    /\ todo = <<>>
    /\ results = <<>>
    /\ written = <<>>
    /\ raised = NotRaised
    /\ current_rel = NoRel
    /\ relative_times = <<>>
    /\ processing_times = <<>>
    /\ line_index = 0
    /\ data = NoData

InitParse(parserSet, calSet) ==
    /\ pc = "parsing"
    /\ parser \in parserSet
    /\ calibration \in calSet
    /\ lines = <<>>
    /\ current = IF parser \in BlockParsers THEN None ELSE EmptyDict
    /\ measurements = <<>>
    /\ summary = IdleStat
    /\ jitter = IdleStat
    /\ values = <<>>
    /\ trim_fraction = DefaultTrim
    /\ stats = IdleStat
    /\ overheads = EmptyDict
    /\ profiles = <<>>
    /\ adjusted = <<>>
    /\ IdleRun

Init == InitParse(Parsers, Calibrations)

Next ==
    \/ ReadLine(Lines, MaxLines)
    \/ BlockEof
    \/ BenchmarkEof
    \/ PlotInheritanceMetrics
    \/ PlotCycleJitter

Spec == Init /\ [][Next]_vars

(***************************************************************************)
(* Runs of parse_pmu_metrics over longer files of several profile blocks,  *)
(* with the zero-overhead default profile.                                 *)
(***************************************************************************)
MaxOrderLines == 6

ZeroCal == [cycle |-> 0, icache |-> 0, dcache_access |-> 0, dcache_miss |-> 0]

OrderLines ==
    {DelimLine("Profile Point:"), JunkLine, MetricLine("ICache Miss", FALSE, 1, 0)}
    \cup {MetricLine("Cycle Count", FALSE, 1, v) : v \in RawVals}

InitOrder == InitParse({"parse_pmu_metrics"}, {ZeroCal})

NextOrder ==
    \/ ReadLine(OrderLines, MaxOrderLines)
    \/ BlockEof

SpecOrder == InitOrder /\ [][NextOrder]_vars

(***************************************************************************)
(* Runs of the inheritance pipeline (parse_inheritance_file,               *)
(* plot_inheritance_metrics, plot_cycle_jitter) over the files made of the *)
(* lines of the two-block sample log, no longer than it.                   *)
(***************************************************************************)
SampleText ==
    << <<Lit("Profile Point:")>>,
       MetricLine("Cycle Count", FALSE, 1, 100),
       MetricLine("ICache Miss", FALSE, 1, 10),
       <<Lit("Profile Point:")>>,
       MetricLine("Cycle Count", FALSE, 1, 200),
       MetricLine("ICache Miss", FALSE, 1, 20) >>

SampleCal == [cycle |-> 50, icache |-> 5, dcache_access |-> 0, dcache_miss |-> 0]

SampleLines == {SampleText[i] : i \in 1..Len(SampleText)}

InitSample == InitParse({"parse_inheritance_file"}, {SampleCal, ZeroCal})

NextSample ==
    \/ ReadLine(SampleLines, Len(SampleText))
    \/ BlockEof
    \/ PlotInheritanceMetrics
    \/ PlotCycleJitter

SpecSample == InitSample /\ [][NextSample]_vars

(***************************************************************************)
(* The statistics over a collected series.                                 *)
(***************************************************************************)
MaxSeriesLen == 10   \* samples in a series
MaxSample == 1       \* largest sample value

Samples == 0..MaxSample

\* Python's round(x, 6) of a non-negative number: to the nearest multiple of
\* 10^-6, ties to even.
Round6(x) ==
    LET q == x.num \div x.den
        r == x.num % x.den
        lo == (r * 1000000) \div x.den
        rem2 == 2 * ((r * 1000000) % x.den)
        up == rem2 > x.den \/ (rem2 = x.den /\ lo % 2 = 1)
    IN  IF x.kind # "num" THEN x
        ELSE Rat(q * 1000000 + lo + (IF up THEN 1 ELSE 0), 1000000)

\* compute_stats with the trimmed mean as its average
compute_stats_trimmed(vals) ==
    IF vals = <<>> THEN [avg |-> Zero, min |-> 0, max |-> 0]
    ELSE [avg |-> robust_average(vals, DefaultTrim), min |-> PyMin(vals), max |-> PyMax(vals)]

\* compute_stats(values): average, minimum, maximum
compute_stats(vals) ==
    IF vals = <<>> THEN [avg |-> Zero, min |-> 0, max |-> 0]
    ELSE [avg |-> Mean(vals), min |-> PyMin(vals), max |-> PyMax(vals)]

\* a sample is appended to the series (processing_times.append, results.extend)
Collect(SampleSet, max) ==
    /\ pc = "collecting"
    /\ Len(values) < max
    /\ \E v \in SampleSet : values' = Append(values, v)
    /\ UNCHANGED <<pc, trim_fraction, stats, parseVars, lockVars, runVars, pairVars, testVars>>

\* The loop body of main of context_switching_test and critical_section_test
\* from the parsed Time Period Total list to the summary entry.
ContextSwitchingMain ==
    /\ pc = "collecting"
    /\ pc' = "done"
    /\ stats' =
         IF values = <<>> THEN [by |-> "main", skipped |-> TRUE]
         ELSE LET cs == compute_stats(values)
                  jitter_total == cs.max - cs.min
              IN  [by |-> "main", skipped |-> FALSE,
                   avg_overall |-> cs.avg, min_overall |-> cs.min, max_overall |-> cs.max,
                   jitter_total |-> jitter_total,
                   jitter_pct |-> IF ~IsZero(cs.avg)
                                  THEN Times(NpDivide(Rat(jitter_total, 1), cs.avg), 100)
                                  ELSE Zero,
                   num_overall |-> Len(values)]
    /\ UNCHANGED <<values, trim_fraction, parseVars, lockVars, runVars, pairVars, testVars>>

\* plot_inheritance_metrics and plot_cycle_jitter for an RTOS whose cycle list
\* is the series.
InheritanceCycleJitter ==
    /\ pc = "collecting"
    /\ pc' = "done"
    /\ LET item == MetricStats(values)
       IN  stats' = [by |-> "plot_cycle_jitter", skipped |-> FALSE,
                     cycle_robust |-> item.robust, cycle_min |-> item.min,
                     cycle_max |-> item.max,
                     jitter_abs |-> item.max - item.min,
                     jitter_pct |-> JitterPct(item)]
    /\ UNCHANGED <<values, trim_fraction, parseVars, lockVars, runVars, pairVars, testVars>>

\* compute_statistics(results_dict) of thread_metric_benchmark for a dict with
\* one RTOS whose list is the series: the entry of that RTOS.
ComputeStatistics ==
    /\ pc = "collecting"
    /\ pc' = "done"
    /\ stats' =
         IF Len(values) = 0
         THEN [by |-> "compute_statistics", skipped |-> FALSE, count |-> 0,
               average |-> Zero, min |-> 0, max |-> 0, jitter |-> Zero,
               percentage |-> Zero]
         ELSE LET avg == Mean(values)
                  val_min == PyMin(values)
                  val_max == PyMax(values)
                  jitter_raw == val_max - val_min
                  jitter_percentage ==
                      IF ~IsZero(avg)
                      THEN Times(PyDivide(Rat(jitter_raw, 1), avg), 100)
                      ELSE Zero
                  best_average == avg
              IN  [by |-> "compute_statistics", skipped |-> FALSE,
                   count |-> Len(values),
                   average |-> avg, min |-> val_min, max |-> val_max,
                   jitter |-> Round6(jitter_percentage),
                   percentage |-> IF ~IsZero(avg)
                                  THEN Times(PyDivide(avg, best_average), 100)
                                  ELSE Zero]
    /\ UNCHANGED <<values, trim_fraction, parseVars, lockVars, runVars, pairVars, testVars>>

InitCollect(FractionSet) ==
    /\ pc = "collecting"
    /\ parser = "none"
    /\ calibration = EmptyDict
    /\ lines = <<>>
    /\ current = None
    /\ measurements = <<>>
    /\ summary = IdleStat
    /\ jitter = IdleStat
    /\ values = <<>>
    /\ trim_fraction \in FractionSet
    /\ stats = IdleStat
    /\ overheads = EmptyDict
    /\ profiles = <<>>
    /\ adjusted = <<>>
    /\ IdleRun

InitStats == InitCollect({DefaultTrim})

NextStats ==
    \/ Collect(Samples, MaxSeriesLen)
    \/ ContextSwitchingMain
    \/ InheritanceCycleJitter
    \/ ComputeStatistics

SpecStats == InitStats /\ [][NextStats]_vars

(***************************************************************************)
(* robust_average called with any trim fraction.                           *)
(***************************************************************************)
MaxTrimLen == 5      \* samples in a series
MaxTrimVal == 2      \* largest sample value

TrimVals == 0..MaxTrimVal

TrimFractions ==
    {<<0, 1>>, <<1, 10>>, <<1, 5>>, <<1, 4>>, <<1, 3>>, <<1, 2>>, <<3, 5>>, <<1, 1>>}

RobustAverage ==
    /\ pc = "collecting"
    /\ values # <<>>
    /\ pc' = "done"
    /\ stats' = [by |-> "robust_average", skipped |-> FALSE,
                 result |-> robust_average(values, trim_fraction)]
    /\ UNCHANGED <<values, trim_fraction, parseVars, lockVars, runVars, pairVars, testVars>>

InitTrim == InitCollect(TrimFractions)

NextTrim ==
    \/ Collect(TrimVals, MaxTrimLen)
    \/ RobustAverage

SpecTrim == InitTrim /\ [][NextTrim]_vars

(***************************************************************************)
(* The calibration readers that collect cycle counts with the pattern      *)
(* 'Cycle Count:\s*(\d+)': parse_calibration_file of task_locking_test and *)
(* the module body of pmu_calibration/analyse.py; and adjust_profiles.     *)
(***************************************************************************)
MaxCalLines == 3     \* lines of a calibration log
MaxProfiles == 2     \* profile entries of a test log

\* re.search(pattern, line): the leftmost position where the pattern matches
RECURSIVE SearchFrom(_, _, _, _, _)
SearchFrom(line, i, label, optCount, minWs) ==
    IF i > Len(line) THEN NoMatch
    ELSE IF MatchAt(line, i, label, optCount, minWs) # NoMatch
    THEN MatchAt(line, i, label, optCount, minWs)
    ELSE SearchFrom(line, i + 1, label, optCount, minWs)

\* re.search(r'Cycle Count:\s*(\d+)', line) and cycle_re
ReSearchCycle(line) == SearchFrom(line, 1, "Cycle Count", FALSE, 0)

\* re.search(r'<label>(?: Count)?:\s*(\d+)', line)
ReSearchMetric(line, label) == SearchFrom(line, 1, label, TRUE, 0)

\* statistics.median of a non-empty list
StatisticsMedian(s) ==
    LET n == Len(s)
        a == Sort(s)
    IN  IF n % 2 = 1 THEN Rat(a[(n + 1) \div 2], 1)
        ELSE Rat(a[n \div 2] + a[n \div 2 + 1], 2)

LockKeys == {"cycle", "icache_miss", "dcache_access", "dcache_miss"}

LockLabel(key) ==
    CASE key = "cycle" -> "Cycle Count"
      [] key = "icache_miss" -> "ICache Miss"
      [] key = "dcache_access" -> "DCache Access"
      [] key = "dcache_miss" -> "DCache Miss"

\* The value the line adds to the list of the key, or NoMatch.
CalibrationMatch(line, key) ==
    IF key = "cycle" THEN ReSearchCycle(line) ELSE ReSearchMetric(line, LockLabel(key))

CalibrationReaders == {"parse_calibration_file", "analyse"}

\* One iteration of the line loop of parse_calibration_file: each of the four
\* patterns is tried on the line.  analyse.py collects the cycle counts only.
ReadCalibrationLine(Alphabet, max) ==
    /\ pc = "calibrating"
    /\ Len(lines) < max
    /\ \E line \in Alphabet :
          /\ lines' = Append(lines, line)
          /\ overheads' =
               [k \in DOMAIN overheads |->
                  IF CalibrationMatch(line, k) # NoMatch
                  THEN ListAppend(overheads[k], CalibrationMatch(line, k))
                  ELSE overheads[k]]
    /\ UNCHANGED <<pc, parser, calibration, current, measurements, summary, jitter,
                   statVars, profiles, adjusted, runVars, pairVars, testVars>>

\* End of the calibration file in parse_calibration_file:
\* cal[key] = statistics.median(overheads[key]) if overheads[key] else 0
CalibrationEof ==
    /\ pc = "calibrating"
    /\ parser = "parse_calibration_file"
    /\ calibration' = [k \in DOMAIN overheads |->
                          IF overheads[k] # <<>> THEN StatisticsMedian(overheads[k])
                          ELSE Zero]
    /\ pc' = "calibrated"
    /\ UNCHANGED <<parser, lines, current, measurements, summary, jitter,
                   statVars, lockVars, runVars, pairVars, testVars>>

\* After the file in analyse.py: mean = statistics.mean(counts), which raises
\* StatisticsError on an empty list.  The standard deviation is written to a
\* column no reader uses and is left out.
AnalyseEof ==
    /\ pc = "calibrating"
    /\ parser = "analyse"
    /\ stats' = IF overheads["cycle"] # <<>>
                THEN [by |-> "analyse", raised |-> FALSE, mean |-> Mean(overheads["cycle"])]
                ELSE [by |-> "analyse", raised |-> TRUE, mean |-> NaN]
    /\ pc' = "done"
    /\ UNCHANGED <<parseVars, values, trim_fraction, lockVars, runVars, pairVars, testVars>>

\* adj["cycle"] = profile["cycle"] - calibration.get("cycle", 0), the other
\* keys copied
AdjustProfile(profile, cal) ==
    IF "cycle" \in DOMAIN profile
    THEN [k \in DOMAIN profile |->
            IF k = "cycle"
            THEN LET c == Get(cal, "cycle", Zero)
                 IN  Rat(profile["cycle"] * c.den - c.num, c.den)
            ELSE profile[k]]
    ELSE profile

\* adjust_profiles(profiles, calibration) on the profile list of a test file
AdjustProfiles(ProfileSet, max) ==
    /\ pc = "calibrated"
    /\ \E n \in 0..max : \E ps \in [1..n -> ProfileSet] :
          /\ profiles' = ps
          /\ adjusted' = [i \in 1..n |-> AdjustProfile(ps[i], calibration)]
    /\ pc' = "done"
    /\ UNCHANGED <<parseVars, statVars, overheads, runVars, pairVars, testVars>>

CalibrationLines ==
    {MetricLine("Cycle Count", e, 1, v) : e \in BOOLEAN, v \in CalVals}
    \cup {MetricLine("ICache Miss", e, 1, 0) : e \in BOOLEAN}
    \cup {<<Lit("PMU"), Space>> \o MetricLine("Cycle Count", FALSE, 0, 0), JunkLine}

\* the profile dicts parse_test_file builds: a label and the metrics found
TestProfiles ==
    {[label |-> "A"]} \cup {[label |-> "A", cycle |-> v] : v \in RawVals}
    \cup {[label |-> "A", cycle |-> v, icache_miss |-> 0] : v \in RawVals}

InitLock ==
    /\ pc = "calibrating"
    /\ parser \in CalibrationReaders
    /\ calibration = EmptyDict
    /\ lines = <<>>
    /\ current = None
    /\ measurements = <<>>
    /\ summary = IdleStat
    /\ jitter = IdleStat
    /\ values = <<>>
    /\ trim_fraction = DefaultTrim
    /\ stats = IdleStat
    /\ overheads = IF parser = "analyse" THEN [k \in {"cycle"} |-> <<>>]
                   ELSE [k \in LockKeys |-> <<>>]
    /\ profiles = <<>>
    /\ adjusted = <<>>
    /\ IdleRun

NextLock ==
    \/ ReadCalibrationLine(CalibrationLines, MaxCalLines)
    \/ CalibrationEof
    \/ AnalyseEof
    \/ AdjustProfiles(TestProfiles, MaxProfiles)

SpecLock == InitLock /\ [][NextLock]_vars

(***************************************************************************)
(* Whole files.  A file is the sequence of its lines; the parse functions  *)
(* are folds of their loop bodies over it.  In the main functions the      *)
(* profile values and the corrected values are held in hundredths, the     *)
(* precision round(x, 2) leaves in a calibration profile.                  *)
(***************************************************************************)
MaxRel == 1          \* largest Relative Time value on a line

RelVals == 0..MaxRel

\* "<label>:" in line
ContainsLabel(line, label) ==
    \E i \in 1..(Len(line) - 1) : line[i] = Lit(label) /\ line[i + 1] = Lit(":")

\* re.search(r'<label>:\s*(\d+)', line)
ReSearchPlain(line, label) == SearchFrom(line, 1, label, FALSE, 0)

\* the pairing condition with the truth value of current_rel in place of the
\* test against None
PairReadyTruthy(rel) == rel # NoRel /\ rel # 0

\* current_rel is not None
PairReady(rel) == rel # NoRel

\* One iteration of the line loop of parse_overall_performance and of
\* parse_sync_file (specific_snychronisation_test); st holds current_rel and
\* the two lists.
PairStep(st, raw) ==
    LET line == Strip(raw)
        m1 == IF ContainsLabel(line, "Relative Time")
              THEN ReSearchPlain(line, "Relative Time") ELSE NoMatch
        rel == IF m1 # NoMatch THEN m1 ELSE st.current_rel
        m2 == IF ContainsLabel(line, "Time Period Total")
              THEN ReSearchPlain(line, "Time Period Total") ELSE NoMatch
    IN  IF m2 # NoMatch /\ PairReady(rel)
        THEN [current_rel |-> NoRel,
              relative_times |-> ListAppend(st.relative_times, rel),
              processing_times |-> ListAppend(st.processing_times, m2)]
        ELSE [current_rel |-> rel,
              relative_times |-> st.relative_times,
              processing_times |-> st.processing_times]

PairStart == [current_rel |-> NoRel, relative_times |-> <<>>, processing_times |-> <<>>]

RECURSIVE PairFold(_, _)
PairFold(text, st) ==
    IF text = <<>> THEN st ELSE PairFold(Tail(text), PairStep(st, Head(text)))

\* parse_overall_performance(filename) on the text of the file
parse_overall_performance(text) == PairFold(text, PairStart)

\* round(x, 2) cut off instead of rounded
Floor2(x) == (x.num * 100) \div x.den

\* round(x, 2) of a non-negative number, in hundredths: the nearest multiple
\* of 0.01, ties to even.
Round2(x) ==
    LET a == x.num * 100
        q == a \div x.den
        rem2 == 2 * (a % x.den)
    IN  q + (IF rem2 > x.den \/ (rem2 = x.den /\ q % 2 = 1) THEN 1 ELSE 0)

\* The values parse_calibration_file appends to metrics[key]: the lines whose
\* first matching pattern of the cascade is the one of the label.
RECURSIVE MatchedValues(_, _)
MatchedValues(text, label) ==
    IF text = <<>> THEN <<>>
    ELSE LET line == Strip(Head(text))
             rest == MatchedValues(Tail(text), label)
         IN  IF FirstLabel(line) = label
             THEN <<ReMatchMetric(line, label)>> \o rest ELSE rest

LabelOf(key) == CHOOSE l \in Labels : KeyOf(l) = key

\* parse_calibration_file(filename) of inheritance_test and of the scripts
\* under "tests auf default": round(robust_average(values), 2) per key, 0.0
\* for a key without values
parse_calibration_file(text) ==
    [k \in Keys |->
        LET vals == MatchedValues(text, LabelOf(k))
        IN  IF vals # <<>> THEN Round2(robust_average(vals, DefaultTrim)) ELSE 0]

\* the profile the main functions use when the calibration file is missing,
\* with a cycle overhead of one
AssumedCalibration == [cycle |-> 100, icache |-> 0, dcache_access |-> 0, dcache_miss |-> 0]

\* {'cycle': 0.0, 'icache': 0.0, 'dcache_access': 0.0, 'dcache_miss': 0.0}
MissingCalibration == [cycle |-> 0, icache |-> 0, dcache_access |-> 0, dcache_miss |-> 0]

\* val = float(m.group(1)) - calibration[key]; max(val, 0), in hundredths
CorrectedValue(raw, overhead) == Clamp(raw * 100 - overhead)

\* One iteration of the line loop of parse_pmu_metrics ("tests auf default"
\* critical_section_test) and of the second loop of parse_inheritance_file
\* (inheritance_test); st holds current_measurement and measurements.
BlockFoldStep(st, raw, cal) ==
    LET line == Strip(raw)
        label == FirstLabel(line)
    IN  IF IsDelimiter(line)
        THEN [current |-> EmptyDict,
              measurements |-> IF st.current # None
                               THEN ListAppend(st.measurements, st.current)
                               ELSE st.measurements]
        ELSE IF st.current # None /\ label # ""
        THEN [current |-> Store(st.current, KeyOf(label),
                                CorrectedValue(ReMatchMetric(line, label),
                                               cal[KeyOf(label)])),
              measurements |-> st.measurements]
        ELSE st

RECURSIVE BlockFold(_, _, _)
BlockFold(text, cal, st) ==
    IF text = <<>> THEN st
    ELSE BlockFold(Tail(text), cal, BlockFoldStep(st, Head(text), cal))

\* parse_pmu_metrics(filename, calibration) on the text of the file
parse_pmu_metrics(text, cal) ==
    LET st == BlockFold(text, cal, [current |-> None, measurements |-> <<>>])
    IN  IF Truthy(st.current) THEN ListAppend(st.measurements, st.current)
        ELSE st.measurements

\* The first loop of parse_inheritance_file: the number of the first line
\* matching 'Total inversion cycles completed:\s+(\d+)', or None.
RECURSIVE TotalInversions(_)
TotalInversions(text) ==
    IF text = <<>> THEN None
    ELSE LET m == MatchAt(Strip(Head(text)), 1, "Total inversion cycles completed",
                          FALSE, 1)
         IN  IF m # NoMatch THEN m ELSE TotalInversions(Tail(text))

\* parse_inheritance_file(filename, calibration): (total_inversions, measurements)
parse_inheritance_file(text, cal) ==
    [total_inversions |-> TotalInversions(text),
     measurements |-> parse_pmu_metrics(text, cal)]

(***************************************************************************)
(* main of inheritance_test and of "tests auf default"                     *)
(* critical_section_test: one calibration file and one test file per RTOS. *)
(***************************************************************************)
\* rtos_list / rtoses
Rtoses == <<"freertos", "threadx", "zephyr">>

\* str.capitalize() on the RTOS names
Capitalize(rtos) ==
    CASE rtos = "freertos" -> "Freertos"
      [] rtos = "threadx" -> "Threadx"
      [] rtos = "zephyr" -> "Zephyr"

\* f"{rtos}_inheritance_test.txt" / f"{rtos}_critical_section_test.txt"
TestFile(script, rtos) ==
    CASE script = "inheritance_test" -> <<rtos, "_inheritance_test.txt">>
      [] script = "critical_section_test" -> <<rtos, "_critical_section_test.txt">>
      [] script = "context_switching_test" -> <<rtos, "_context_switching_test.txt">>
      [] script = "task_synchronisation_preempt_test" -> <<rtos, "_task_sync.txt">>
      [] script = "default_tests/critical_section_test" ->
            <<rtos, "_critical_section_test.txt">>

\* f"{rtos}_pmu_calibaration.txt"
CalFile(rtos) == <<rtos, "_pmu_calibaration.txt">>

PlotDir == <<"plot">>

\* os.path.exists(path)
Exists(fsys, path) == path \in DOMAIN fsys

\* if not os.path.exists(plot_dir): os.makedirs(plot_dir)
MakeDirs(fsys, dir) == IF Exists(fsys, dir) THEN fsys ELSE Store(fsys, dir, <<>>)

\* plt.savefig / open(path, "w") of a file in an existing place
WriteFile(fsys, path) == Store(fsys, path, <<>>)

\* the plotting functions of the scripts: the directory is created when it
\* is absent, then the figure is saved into it
SavePlot(fsys, name) == WriteFile(MakeDirs(fsys, PlotDir), PlotDir \o name)

\* the summary entry main builds from the Time Period Total list
OverallEntry(rtos, pts) ==
    LET cs == compute_stats(pts)
        jitter_total == cs.max - cs.min
    IN  [rtos |-> Capitalize(rtos),
         avg_overall |-> cs.avg, min_overall |-> cs.min, max_overall |-> cs.max,
         jitter_total |-> jitter_total,
         jitter_pct |-> IF ~IsZero(cs.avg)
                        THEN Times(NpDivide(Rat(jitter_total, 1), cs.avg), 100)
                        ELSE Zero,
         num_overall |-> Len(pts)]

\* if os.path.exists(cal_file): parse_calibration_file(cal_file) else zeros
SelectCalibration(fsys, rtos) ==
    IF Exists(fsys, CalFile(rtos)) THEN parse_calibration_file(fsys[CalFile(rtos)])
    ELSE MissingCalibration

\* One iteration of the loop of main of inheritance_test.
InheritanceIteration ==
    /\ pc = "main"
    /\ parser = "inheritance_test"
    /\ todo # <<>>
    /\ LET rtos == Head(todo)
           test_file == TestFile(parser, rtos)
       IN  /\ todo' = Tail(todo)
           /\ current' = rtos
           /\ IF ~Exists(fs, test_file)
              THEN UNCHANGED <<calibration, measurements, summary, results, fs, written>>
              ELSE \E cal \in {SelectCalibration(fs, rtos)} :
                   \E parsed \in {parse_inheritance_file(fs[test_file], cal)} :
                   \E ms \in {parsed.measurements} :
                   \E averages \in {[k \in Keys |-> MetricStats(Series(ms, k))]} :
                       /\ calibration' = cal
                       /\ measurements' = ms
                       /\ summary' = averages
                       /\ results' = ListAppend(results,
                              [rtos |-> Capitalize(rtos), file |-> test_file,
                               total_inversions |-> parsed.total_inversions,
                               num_measurements |-> Len(ms),
                               averages |-> averages])
                       /\ fs' = SavePlot(fs, <<rtos, "metrics">>)
                       /\ written' = ListAppend(written, <<"plot", rtos, "metrics">>)
    /\ UNCHANGED <<pc, parser, lines, jitter, raised, statVars, lockVars, pairVars, testVars>>

\* After the loop of main of inheritance_test: the summary file is written
\* into the working directory, then plot_comparison_all_rtoses saves its figure.
InheritanceFinish ==
    /\ pc = "main"
    /\ parser = "inheritance_test"
    /\ todo = <<>>
    /\ fs' = SavePlot(WriteFile(fs, <<"summary_inheritance.txt">>),
                      <<"comparison_all_rtoses.png">>)
    /\ written' = written \o << <<"summary_inheritance.txt">>,
                               <<"plot", "comparison_all_rtoses.png">> >>
    /\ pc' = "done"
    /\ UNCHANGED <<parser, calibration, lines, current, measurements, summary, jitter,
                   todo, results, raised, statVars, lockVars, pairVars, testVars>>

\* One iteration of the loop of main of critical_section_test.
CriticalSectionIteration ==
    /\ pc = "main"
    /\ parser = "critical_section_test"
    /\ todo # <<>>
    /\ LET rtos == Head(todo)
           test_file == TestFile(parser, rtos)
       IN  /\ todo' = Tail(todo)
           /\ current' = rtos
           /\ IF ~Exists(fs, test_file)
              THEN UNCHANGED <<calibration, measurements, results, fs, written>>
              ELSE \E cal \in {SelectCalibration(fs, rtos)} :
                   \E pts \in {parse_overall_performance(fs[test_file]).processing_times} :
                   \E pmu \in {parse_pmu_metrics(fs[test_file], cal)} :
                       /\ calibration' = cal
                       /\ IF pts = <<>>
                          THEN UNCHANGED <<measurements, results, fs, written>>
                          ELSE /\ results' = ListAppend(results, OverallEntry(rtos, pts))
                               /\ measurements' = pmu
                               /\ fs' = IF pmu # <<>>
                                        THEN SavePlot(SavePlot(fs, <<rtos, "overall">>),
                                                      <<rtos, "pmu">>)
                                        ELSE SavePlot(fs, <<rtos, "overall">>)
                               /\ written' = written
                                    \o << <<"plot", rtos, "overall">> >>
                                    \o (IF pmu # <<>>
                                        THEN << <<"plot", rtos, "pmu">> >>
                                        ELSE <<>>)
    /\ UNCHANGED <<pc, parser, lines, summary, jitter, raised, statVars, lockVars,
                   pairVars, testVars>>

\* open(path, "w"): raises when the directory of the path is absent
OpenForWriting(fsys, dir, path) ==
    IF Exists(fsys, dir) THEN NotRaised ELSE FileNotFoundError(path, "w")

\* After the loop of main of critical_section_test: the comparison figures
\* when there is a summary, then the summary file in "plot".
CriticalSectionFinish ==
    /\ pc = "main"
    /\ parser = "critical_section_test"
    /\ todo = <<>>
    /\ LET plotted == IF results # <<>> THEN SavePlot(fs, <<"comparison">>) ELSE fs
           err == OpenForWriting(plotted, PlotDir,
                                 <<"plot", "summary_critical_section.txt">>)
       IN  /\ raised' = err
           /\ fs' = IF err = NotRaised
                    THEN WriteFile(plotted, <<"plot", "summary_critical_section.txt">>)
                    ELSE plotted
           /\ written' = written
                \o (IF results # <<>> THEN << <<"plot", "comparison">> >> ELSE <<>>)
                \o (IF err = NotRaised THEN << <<"plot", "summary_critical_section.txt">> >>
                    ELSE <<>>)
    /\ pc' = "done"
    /\ UNCHANGED <<parser, calibration, lines, current, measurements, summary, jitter,
                   todo, results, statVars, lockVars, pairVars, testVars>>

\* the test files and the calibration files of the runs of main
RelLine(v) == MetricLine("Relative Time", FALSE, 1, v)
TptLine(v) == MetricLine("Time Period Total", FALSE, 1, v)

TestTexts ==
    {<<RelLine(0), TptLine(1), DelimLine("Profile Point:"),
       MetricLine("Cycle Count", FALSE, 1, v)>> : v \in RawVals}
    \cup {<<DelimLine("Profile Entry:"), MetricLine("DCache Miss", TRUE, 1, MaxRaw)>>}

CalTexts ==
    {<<MetricLine("Cycle Count", FALSE, 1, c)>> : c \in CalVals}
    \cup {<<MetricLine("Cycle Count", TRUE, 1, 0), MetricLine("Cycle Count", FALSE, 1, 1),
           MetricLine("DCache Miss", FALSE, 1, MaxCal)>>}

\* main starts: nothing parsed, nothing written, every RTOS to do
InitRun(ScriptSet) ==
    /\ pc = "main"
    /\ parser \in ScriptSet
    /\ calibration = EmptyDict
    /\ lines = <<>>
    /\ current = ""
    /\ measurements = <<>>
    /\ summary = IdleStat
    /\ jitter = IdleStat
    /\ values = <<>>
    /\ trim_fraction = DefaultTrim
    /\ stats = IdleStat
    /\ overheads = EmptyDict
    /\ profiles = <<>>
    /\ adjusted = <<>>
    /\ todo = Rtoses
    /\ results = <<>>
    /\ written = <<>>
    /\ raised = NotRaised
    /\ current_rel = NoRel
    /\ relative_times = <<>>
    /\ processing_times = <<>>
    /\ line_index = 0
    /\ data = NoData

RtosSet == {Rtoses[i] : i \in 1..Len(Rtoses)}

\* The working directory before main runs: any of the test files and of the
\* calibration files may be missing; the plot directory may exist.
InitCalibrated ==
    /\ InitRun({"inheritance_test", "critical_section_test"})
    /\ \E tp \in SUBSET RtosSet, cp \in SUBSET RtosSet, dirs \in SUBSET {PlotDir} :
          \E tf \in [tp -> TestTexts], cf \in [cp -> CalTexts] :
             fs = [p \in {TestFile(parser, r) : r \in tp} \cup {CalFile(r) : r \in cp}
                            \cup dirs |->
                      IF p \in dirs THEN <<>>
                      ELSE IF p = CalFile(p[1]) THEN cf[p[1]] ELSE tf[p[1]]]

NextCalibrated ==
    \/ InheritanceIteration
    \/ InheritanceFinish
    \/ CriticalSectionIteration
    \/ CriticalSectionFinish

SpecCalibrated == InitCalibrated /\ [][NextCalibrated]_vars

(***************************************************************************)
(* main of default_tests/context_switching_test: calibration_stats.csv of  *)
(* pmu_calibration and one test log per RTOS.                              *)
(***************************************************************************)
\* the RTOS name kept as the CSV spells it
LowerUnchanged(name) == name

\* str.lower() on the RTOS names of the CSV and of the file names
Lower(name) ==
    CASE name = "FreeRTOS" -> "freertos"
      [] name = "ThreadX" -> "threadx"
      [] name = "Zephyr" -> "zephyr"
      [] OTHER -> name

\* csv_path: ../../pmu_calibration/calibration_stats.csv
CsvPath == <<"..", "..", "pmu_calibration", "calibration_stats.csv">>

\* read_calibration_stats(filename) on the rows of the CSV; a row holds RTOS
\* and Mean_Overhead_Cycles (in hundredths, the two decimals of the column)
RECURSIVE read_calibration_stats(_)
read_calibration_stats(rows) ==
    IF rows = <<>> THEN EmptyDict
    ELSE LET row == rows[Len(rows)]
             before == read_calibration_stats(SubSeq(rows, 1, Len(rows) - 1))
         IN  Store(before, Lower(row.RTOS),
                   [cycle |-> row.Mean_Overhead_Cycles, icache |-> 0,
                    dcache_access |-> 0, dcache_miss |-> 0])

\* open(path) for reading: raises when the file is absent
OpenForReading(fsys, path) ==
    IF Exists(fsys, path) THEN NotRaised ELSE FileNotFoundError(path, "r")

\* calibration_stats = read_calibration_stats(csv_path), before the loop
ContextReadCalibration ==
    /\ pc = "main"
    /\ parser = "context_switching_test"
    /\ LET err == OpenForReading(fs, CsvPath)
       IN  IF err # NotRaised
           THEN /\ raised' = err
                /\ pc' = "done"
                /\ UNCHANGED overheads
           ELSE /\ overheads' = read_calibration_stats(fs[CsvPath])
                /\ pc' = "loop"
                /\ UNCHANGED raised
    /\ UNCHANGED <<parseVars, statVars, profiles, adjusted, fs, todo, results, written,
                   pairVars, testVars>>

\* round(robust_average(cycles), 2) if cycles else 0.0, cycles in hundredths
AvgCycles(cycles) ==
    IF cycles # <<>>
    THEN LET r == robust_average(cycles, DefaultTrim)
         IN  Round2(Rat(r.num, r.den * 100))
    ELSE 0

\* One iteration of the loop of main of context_switching_test.
ContextIteration ==
    /\ pc = "loop"
    /\ parser = "context_switching_test"
    /\ todo # <<>>
    /\ LET rtos == Head(todo)
           test_file == TestFile(parser, rtos)
           err == OpenForReading(fs, test_file)
       IN  /\ current' = rtos
           /\ calibration' = Get(overheads, rtos, MissingCalibration)
           /\ IF err # NotRaised
              THEN /\ raised' = err
                   /\ pc' = "done"
                   /\ UNCHANGED <<todo, measurements, results, fs, written>>
              ELSE \E pts \in {parse_overall_performance(fs[test_file]).processing_times} :
                   \E pmu \in {parse_pmu_metrics(fs[test_file],
                                                 Get(overheads, rtos, MissingCalibration))} :
                   \E entry \in {OverallEntry(rtos, pts)} :
                   \E cycles \in {Series(pmu, "cycle")} :
                       /\ todo' = Tail(todo)
                       /\ UNCHANGED <<raised, pc>>
                       /\ IF pts = <<>>
                          THEN UNCHANGED <<measurements, results, fs, written>>
                          ELSE /\ measurements' = pmu
                               /\ results' = ListAppend(results,
                                    IF pmu # <<>>
                                    THEN [k \in DOMAIN entry \cup {"avg_cycles"} |->
                                            IF k = "avg_cycles"
                                            THEN AvgCycles(cycles)
                                            ELSE entry[k]]
                                    ELSE entry)
                               /\ fs' = IF pmu # <<>>
                                        THEN SavePlot(SavePlot(fs, <<rtos, "overall">>),
                                                      <<rtos, "pmu">>)
                                        ELSE SavePlot(fs, <<rtos, "overall">>)
                               /\ written' = written
                                    \o << <<"plot", rtos, "overall">> >>
                                    \o (IF pmu # <<>> THEN << <<"plot", rtos, "pmu">> >>
                                        ELSE <<>>)
    /\ UNCHANGED <<parser, lines, summary, jitter, statVars, lockVars, pairVars, testVars>>

\* After the loop of main of context_switching_test: the comparison figures
\* when there is a summary, then the summary CSV in "plot".
ContextFinish ==
    /\ pc = "loop"
    /\ parser = "context_switching_test"
    /\ todo = <<>>
    /\ LET plotted == IF results # <<>> THEN SavePlot(fs, <<"comparison">>) ELSE fs
           summary_file == <<"plot", "summary_context_switching.csv">>
           err == OpenForWriting(plotted, PlotDir, summary_file)
       IN  /\ raised' = err
           /\ fs' = IF err = NotRaised THEN WriteFile(plotted, summary_file) ELSE plotted
           /\ written' = written
                \o (IF results # <<>> THEN << <<"plot", "comparison">> >> ELSE <<>>)
                \o (IF err = NotRaised THEN <<summary_file>> ELSE <<>>)
    /\ pc' = "done"
    /\ UNCHANGED <<parser, calibration, lines, current, measurements, summary, jitter,
                   todo, results, statVars, lockVars, pairVars, testVars>>

\* the rows analyse.py writes: the RTOS label and the mean with two decimals
CsvTexts ==
    {<< >>}
    \cup {<<[RTOS |-> "FreeRTOS", Mean_Overhead_Cycles |-> 100 * c]>> : c \in CalVals}

\* The working directory before main of context_switching_test runs: the CSV
\* and any test log may be missing; the plot directory may exist.
InitContext ==
    /\ InitRun({"context_switching_test"})
    /\ \E tp \in SUBSET RtosSet, cp \in SUBSET {CsvPath}, dirs \in SUBSET {PlotDir} :
          \E tf \in [tp -> TestTexts], cf \in [cp -> CsvTexts] :
             fs = [p \in {TestFile(parser, r) : r \in tp} \cup cp \cup dirs |->
                      IF p \in dirs THEN <<>>
                      ELSE IF p \in cp THEN cf[p] ELSE tf[p[1]]]

NextContext ==
    \/ ContextReadCalibration
    \/ ContextIteration
    \/ ContextFinish

SpecContext == InitContext /\ [][NextContext]_vars

(***************************************************************************)
(* task_synchronisation_coop_test: the log is read as one string and split *)
(* into blocks at a marker; a pattern is searched in the whole block, so   *)
(* its \s* also runs over line ends.                                       *)
(***************************************************************************)
\* f.read(): the lines joined, a line end being whitespace like a blank
RECURSIVE Content(_)
Content(text) ==
    IF text = <<>> THEN <<>>
    ELSE IF Len(text) = 1 THEN text[1]
    ELSE text[1] \o <<Space>> \o Content(Tail(text))

\* The length of the match of a split pattern at position i, 0 when it does
\* not match there:
\*   sync     \*{4}\s*Task Synchronistation Test\s*\*{4}
\*   calib    \[Main\]\s+Starting PMU calibration Test\.
\*   profile  Profile (?:Point|Entry):
MarkerLen(kind, c, i) ==
    LET n == Len(c)
        j == SkipWs(c, i + 1)
        k == SkipWs(c, j + 1)
    IN  CASE kind = "sync" ->
               IF c[i] = Lit("****") /\ j <= n /\ c[j] = Lit("Task Synchronistation Test")
                  /\ k <= n /\ c[k] = Lit("****")
               THEN k + 1 - i ELSE 0
          [] kind = "calib" ->
               IF c[i] = Lit("[Main]") /\ j > i + 1 /\ j <= n
                  /\ c[j] = Lit("Starting PMU calibration Test.")
               THEN j + 1 - i ELSE 0
          [] kind = "profile" ->
               IF c[i] = Lit("Profile Point:") \/ c[i] = Lit("Profile Entry:")
               THEN 1 ELSE 0

\* re.split(pattern, content): the pieces between the matches, from the piece
\* that starts at position start on
RECURSIVE SplitFrom(_, _, _, _)
SplitFrom(kind, c, i, start) ==
    IF i > Len(c) THEN <<SubSeq(c, start, Len(c))>>
    ELSE IF MarkerLen(kind, c, i) > 0
    THEN <<SubSeq(c, start, i - 1)>>
            \o SplitFrom(kind, c, i + MarkerLen(kind, c, i), i + MarkerLen(kind, c, i))
    ELSE SplitFrom(kind, c, i + 1, start)

ReSplit(kind, c) == SplitFrom(kind, c, 1, 1)

\* int(m.group(1)) if m else None
OrNone(m) == IF m # NoMatch THEN m ELSE NoRel

\* the PMU fields both parsers of the script search in a block
CoopPmuFields(block) ==
    [cycle_count |-> OrNone(ReSearchCycle(block)),
     icache_miss |-> OrNone(ReSearchMetric(block, "ICache Miss")),
     dcache_access |-> OrNone(ReSearchMetric(block, "DCache Access")),
     dcache_miss |-> OrNone(ReSearchMetric(block, "DCache Miss"))]

\* The dict parse_sync_file appends for one block.  avg_time_iteration is
\* collected into a list nothing reads and is left out.
CoopSyncRecord(block) ==
    LET pmu == CoopPmuFields(block)
    IN  [relative_time |-> OrNone(ReSearchPlain(block, "Relative Time")),
         time_period_total |-> OrNone(ReSearchPlain(block, "Time Period Total")),
         task1_counter |-> OrNone(ReSearchPlain(block, "Task1 Counter")),
         task2_counter |-> OrNone(ReSearchPlain(block, "Task2 Counter")),
         cycle_count |-> pmu.cycle_count, icache_miss |-> pmu.icache_miss,
         dcache_access |-> pmu.dcache_access, dcache_miss |-> pmu.dcache_miss]

\* parse_sync_file(filename) of task_synchronisation_coop_test
coop_parse_sync_file(text) ==
    LET blocks == ReSplit("sync", Content(text))
    IN  [i \in 1..(Len(blocks) - 1) |-> CoopSyncRecord(blocks[i + 1])]

\* parse_calibration_file(filename) of task_synchronisation_coop_test
coop_parse_calibration_file(text) ==
    LET blocks == ReSplit("calib", Content(text))
    IN  [i \in 1..(Len(blocks) - 1) |-> CoopPmuFields(blocks[i + 1])]

\* [c[key] for c in calibs if c[key] is not None]: the values present
RECURSIVE Present(_, _)
Present(records, key) ==
    IF records = <<>> THEN <<>>
    ELSE (IF Head(records)[key] # NoRel THEN <<Head(records)[key]>> ELSE <<>>)
            \o Present(Tail(records), key)

CoopMetrics == {"cycle_count", "icache_miss", "dcache_access", "dcache_miss"}

\* np.median of a non-empty list of integers, in halves
MedianHalves(s) ==
    LET n == Len(s)
        a == Sort(s)
    IN  IF n % 2 = 1 THEN 2 * a[(n + 1) \div 2] ELSE a[n \div 2] + a[n \div 2 + 1]

\* calib_averages[rtos]: robust_average(vals) if vals else None per metric,
\* all None without calibration blocks; the averages are held in halves
CoopCalibAverages(calibs) ==
    [m \in CoopMetrics |->
        IF calibs # <<>> /\ Present(calibs, m) # <<>>
        THEN MedianHalves(Present(calibs, m)) ELSE NoRel]

\* [x - cal[m] if cal[m] is not None else x for x in values], in halves
CoopCorrected(vals, overhead) ==
    [i \in 1..Len(vals) |-> IF overhead # NoRel THEN 2 * vals[i] - overhead
                            ELSE 2 * vals[i]]

ValueError == [exc |-> "ValueError", path |-> <<>>, mode |-> ""]

\* summary_stats(values): np.min of an empty array raises ValueError
summary_stats(vals) ==
    IF vals = <<>>
    THEN [raised |-> ValueError, min |-> 0, max |-> 0, jitter |-> 0, robust_avg |-> NaN]
    ELSE [raised |-> NotRaised, min |-> PyMin(vals), max |-> PyMax(vals),
          jitter |-> PyMax(vals) - PyMin(vals), robust_avg |-> NpMedian(vals)]

CoopScript == "task_synchronisation_coop_test"

\* rtoses of task_synchronisation_coop_test
CoopRtoses == <<"freertos", "zephyr", "threadx">>

SyncFile(rtos) == <<rtos, "_task_sync.txt">>
PlotsDir == <<"plots">>

\* One iteration of the first loop of main: the two files of an RTOS are
\* parsed, a missing file gives an empty list.  measurements is sync_data,
\* overheads is calib_data.
CoopLoadIteration ==
    /\ pc = "main"
    /\ parser = CoopScript
    /\ todo # <<>>
    /\ \E rtos \in {Head(todo)} :
          /\ todo' = Tail(todo)
          /\ measurements' = Store(measurements, rtos,
                IF Exists(fs, SyncFile(rtos)) THEN coop_parse_sync_file(fs[SyncFile(rtos)])
                ELSE <<>>)
          /\ overheads' = Store(overheads, rtos,
                IF Exists(fs, CalFile(rtos))
                THEN coop_parse_calibration_file(fs[CalFile(rtos)])
                ELSE <<>>)
    /\ UNCHANGED <<pc, parser, calibration, lines, current, summary, jitter, statVars,
                   profiles, adjusted, fs, results, written, raised, pairVars, testVars>>

\* The second loop of main: calibration is calib_averages.
CoopAverages ==
    /\ pc = "main"
    /\ parser = CoopScript
    /\ todo = <<>>
    /\ calibration' = [r \in DOMAIN overheads |-> CoopCalibAverages(overheads[r])]
    /\ todo' = CoopRtoses
    /\ pc' = "process"
    /\ UNCHANGED <<parser, lines, current, measurements, summary, jitter, statVars,
                   lockVars, fs, results, written, raised, pairVars, testVars>>

\* the lists of an RTOS whose statistics main computes, in this order
CoopLists(sync, cal) ==
    LET raw == [m \in CoopMetrics |-> Present(sync, m)]
    IN  [time_period_total |-> Present(sync, "time_period_total"),
         cycle_count |-> raw["cycle_count"],
         icache_miss |-> raw["icache_miss"],
         dcache_access |-> raw["dcache_access"],
         dcache_miss |-> raw["dcache_miss"],
         corrected_cycle_count |-> CoopCorrected(raw["cycle_count"], cal["cycle_count"]),
         corrected_icache_miss |-> CoopCorrected(raw["icache_miss"], cal["icache_miss"]),
         corrected_dcache_access |->
             CoopCorrected(raw["dcache_access"], cal["dcache_access"]),
         corrected_dcache_miss |-> CoopCorrected(raw["dcache_miss"], cal["dcache_miss"])]

\* One iteration of the third loop of main: an RTOS without blocks is
\* skipped; profiles is processed_data, results is summary.
CoopProcessIteration ==
    /\ pc = "process"
    /\ parser = CoopScript
    /\ todo # <<>>
    /\ \E rtos \in {Head(todo)} :
       \E lists \in {CoopLists(measurements[rtos], calibration[rtos])} :
       \E computed \in {[m \in DOMAIN lists |-> summary_stats(lists[m])]} :
          /\ current' = rtos
          /\ IF measurements[rtos] = <<>>
             THEN /\ todo' = Tail(todo)
                  /\ UNCHANGED <<pc, profiles, results, raised>>
             ELSE IF \E m \in DOMAIN lists : computed[m].raised # NotRaised
             THEN /\ raised' = ValueError
                  /\ profiles' = Store(profiles, rtos, lists)
                  /\ pc' = "done"
                  /\ UNCHANGED <<todo, results>>
             ELSE /\ profiles' = Store(profiles, rtos, lists)
                  /\ results' = Store(results, rtos, computed)
                  /\ todo' = Tail(todo)
                  /\ UNCHANGED <<pc, raised>>
    /\ UNCHANGED <<parser, calibration, lines, measurements, summary, jitter, statVars,
                   overheads, adjusted, fs, written, pairVars, testVars>>

\* The figures of main after the loops: plt.savefig into "plots", which main
\* never creates.
CoopPlot ==
    /\ pc = "process"
    /\ parser = CoopScript
    /\ todo = <<>>
    /\ \E err \in {OpenForWriting(fs, PlotsDir, <<"plots", "cycle_count_over_time.png">>)} :
          /\ raised' = err
          /\ IF err # NotRaised
             THEN /\ pc' = "done"
                  /\ UNCHANGED <<fs, written>>
             ELSE /\ pc' = "plotted"
                  /\ fs' = WriteFile(fs, <<"plots", "over_time">>)
                  /\ written' = ListAppend(written, <<"plots", "over_time">>)
    /\ UNCHANGED <<parseVars, statVars, lockVars, todo, results, pairVars, testVars>>

\* summary.txt and the two bar figures
CoopSummary ==
    /\ pc = "plotted"
    /\ parser = CoopScript
    /\ fs' = WriteFile(WriteFile(fs, <<"summary.txt">>), <<"plots", "robust_avg">>)
    /\ written' = written \o << <<"summary.txt">>, <<"plots", "robust_avg">> >>
    /\ pc' = "done"
    /\ UNCHANGED <<parseVars, statVars, lockVars, todo, results, raised, pairVars, testVars>>

SyncMarker == <<Lit("****"), Space, Lit("Task Synchronistation Test"), Space, Lit("****")>>
CalibMarker == <<Lit("[Main]"), Space, Lit("Starting PMU calibration Test.")>>

\* a block of a sync log, the cycle line with the given value or missing
SyncBlock(withCycle, v) ==
    <<SyncMarker, RelLine(1), TptLine(1)>>
        \o (IF withCycle THEN <<MetricLine("Cycle Count", FALSE, 1, v)>> ELSE <<>>)
        \o <<MetricLine("ICache Miss", TRUE, 1, 0), MetricLine("DCache Access", FALSE, 1, 0),
             MetricLine("DCache Miss", FALSE, 0, 0)>>

SyncTexts ==
    {SyncBlock(TRUE, v) : v \in RawVals}
    \cup {SyncBlock(FALSE, 0), <<RelLine(0)>>,
          SyncBlock(TRUE, 0) \o SyncBlock(TRUE, MaxRaw)}

CoopCalTexts ==
    {<<CalibMarker, <<Lit("Cycle Count"), Lit(":")>>, <<Digits(c)>> >> : c \in CalVals}

InitCoop ==
    /\ InitRun({CoopScript})
    /\ \E tp \in SUBSET RtosSet, cp \in SUBSET RtosSet, dirs \in SUBSET {PlotsDir} :
          \E tf \in [tp -> SyncTexts], cf \in [cp -> CoopCalTexts] :
             fs = [p \in {SyncFile(r) : r \in tp} \cup {CalFile(r) : r \in cp}
                            \cup dirs |->
                      IF p \in dirs THEN <<>>
                      ELSE IF p = CalFile(p[1]) THEN cf[p[1]] ELSE tf[p[1]]]

NextCoop ==
    \/ CoopLoadIteration
    \/ CoopAverages
    \/ CoopProcessIteration
    \/ CoopPlot
    \/ CoopSummary

SpecCoop == InitCoop /\ [][NextCoop]_vars

(***************************************************************************)
(* The aggregators on the same records in two orders.                      *)
(***************************************************************************)
MaxPermLen == 4      \* records in the series that is reordered
MaxPermVal == 2      \* largest value of a record

PermVals == 0..MaxPermVal
PermFractions == {DefaultTrim, <<1, 4>>}

\* the orders of n records
Orders(n) == {p \in [1..n -> 1..n] : \A i, j \in 1..n : p[i] = p[j] => i = j}

\* The records of the series arrive in another order: measurements holds the
\* values of the series in that order.
Reorder ==
    /\ pc = "collecting"
    /\ \E p \in Orders(Len(values)) :
          measurements' = [i \in 1..Len(values) |-> values[p[i]]]
    /\ pc' = "reordered"
    /\ UNCHANGED <<parser, calibration, lines, current, summary, jitter, statVars,
                   lockVars, runVars, pairVars, testVars>>

\* robust_average and compute_stats on the series in both orders
AggregateBoth ==
    /\ pc = "reordered"
    /\ stats' = [by |-> "aggregate",
                 robust |-> robust_average(values, trim_fraction),
                 computed |-> compute_stats(values),
                 robust_reordered |-> robust_average(measurements, trim_fraction),
                 computed_reordered |-> compute_stats(measurements)]
    /\ pc' = "done"
    /\ UNCHANGED <<values, trim_fraction, parseVars, lockVars, runVars, pairVars, testVars>>

InitReorder == InitCollect(PermFractions)

NextReorder ==
    \/ Collect(PermVals, MaxPermLen)
    \/ Reorder
    \/ AggregateBoth

SpecReorder == InitReorder /\ [][NextReorder]_vars

(***************************************************************************)
(* parse_calibration_file on calibration logs long enough to be trimmed.   *)
(***************************************************************************)
MaxCalLog == 10      \* lines appended to a calibration log

\* how a calibration log starts
CalPrefixes ==
    {<<>>,
     <<MetricLine("ICache Miss", TRUE, 1, MaxCal)>>,
     <<JunkLine, <<Space>> \o MetricLine("DCache Access", FALSE, 1, MaxCal),
       MetricLine("DCache Access", TRUE, 1, 0), MetricLine("DCache Access", FALSE, 1, 0)>>}

\* the lines a calibration run repeats
CalLogLines == {MetricLine("Cycle Count", e, 1, v) : e \in {FALSE}, v \in {0, MaxCal}}

\* one more line in the calibration log
CalLogAppend ==
    /\ pc = "logging"
    /\ Len(SelectSeq(lines, LAMBDA l : l \in CalLogLines)) < MaxCalLog
    /\ \E line \in CalLogLines : lines' = Append(lines, line)
    /\ UNCHANGED <<pc, parser, calibration, current, measurements, summary, jitter,
                   statVars, lockVars, runVars, pairVars, testVars>>

\* cal = parse_calibration_file(filename)
ParseCalibrationLog ==
    /\ pc = "logging"
    /\ calibration' = parse_calibration_file(lines)
    /\ pc' = "calibrated"
    /\ UNCHANGED <<parser, lines, current, measurements, summary, jitter,
                   statVars, lockVars, runVars, pairVars, testVars>>

InitCalLog ==
    /\ pc = "logging"
    /\ parser = "inheritance_test"
    /\ calibration = EmptyDict
    /\ lines \in CalPrefixes
    /\ current = None
    /\ measurements = <<>>
    /\ summary = IdleStat
    /\ jitter = IdleStat
    /\ values = <<>>
    /\ trim_fraction = DefaultTrim
    /\ stats = IdleStat
    /\ overheads = EmptyDict
    /\ profiles = <<>>
    /\ adjusted = <<>>
    /\ IdleRun

NextCalLog ==
    \/ CalLogAppend
    \/ ParseCalibrationLog

SpecCalLog == InitCalLog /\ [][NextCalLog]_vars

(***************************************************************************)
(* default_tests/task_synchronisation_preempt_test: main, steps 1 and 2.   *)
(* A log is held as the list of its profile sections, each section as the  *)
(* dict parse_sync_file builds from it; np.nan is held as NanCount.        *)
(* Overheads and corrected values are in hundredths.                       *)
(***************************************************************************)
PreemptScript == "task_synchronisation_preempt_test"
NanCount == 0 - 2

PmuKeys == <<"icache_miss", "dcache_access", "dcache_miss">>

\* the characters of the strings main and read_calibration_stats use as keys
Chars(name) ==
    CASE name = "cycle" -> <<"c", "y", "c", "l", "e">>
      [] name = "icache" -> <<"i", "c", "a", "c", "h", "e">>
      [] name = "dcache" -> <<"d", "c", "a", "c", "h", "e">>
      [] name = "icache_miss" -> <<"i", "c", "a", "c", "h", "e", "_", "m", "i", "s", "s">>
      [] name = "dcache_miss" -> <<"d", "c", "a", "c", "h", "e", "_", "m", "i", "s", "s">>
      [] name = "dcache_access" ->
            <<"d", "c", "a", "c", "h", "e", "_", "a", "c", "c", "e", "s", "s">>
      [] name = "_miss" -> <<"_", "m", "i", "s", "s">>
      [] name = "_access" -> <<"_", "a", "c", "c", "e", "s", "s">>

\* str.replace(old, ''): every occurrence of old removed, left to right
RECURSIVE Remove(_, _)
Remove(str, old) ==
    IF Len(str) < Len(old) THEN str
    ELSE IF SubSeq(str, 1, Len(old)) = old
         THEN Remove(SubSeq(str, Len(old) + 1, Len(str)), old)
         ELSE <<Head(str)>> \o Remove(Tail(str), old)

\* key.replace('_miss','').replace('_access','')
OverheadKey(key) == Remove(Remove(Chars(key), Chars("_miss")), Chars("_access"))

\* ov.get(name, 0.0), name given by its characters
GetChars(ov, name) ==
    IF \E k \in DOMAIN ov : Chars(k) = name
    THEN ov[CHOOSE k \in DOMAIN ov : Chars(k) = name]
    ELSE 0

\* read_calibration_stats(filename) of the script: a row is the dict
\* csv.DictReader yields, row.get(column, 0.0) for the optional columns
RECURSIVE preempt_read_calibration_stats(_)
preempt_read_calibration_stats(rows) ==
    IF rows = <<>> THEN EmptyDict
    ELSE LET row == rows[Len(rows)]
             before == preempt_read_calibration_stats(SubSeq(rows, 1, Len(rows) - 1))
         IN  Store(before, Lower(row["RTOS"]),
                   [cycle |-> row["Mean_Overhead_Cycles"],
                    icache |-> Get(row, "Mean_Overhead_ICache", 0),
                    dcache_access |-> Get(row, "Mean_Overhead_DCache_Access", 0),
                    dcache_miss |-> Get(row, "Mean_Overhead_DCache_Miss", 0)])

\* the body of "for m in meas" in main
PreemptCorrect(m, ov) ==
    [k \in DOMAIN m |->
        IF k = "cycle_count" /\ m[k] # NanCount
        THEN Clamp(m[k] * 100 - Get(ov, "cycle", 0))
        ELSE IF (\E i \in 1..Len(PmuKeys) : PmuKeys[i] = k) /\ m[k] # NanCount
        THEN Clamp(m[k] * 100 - GetChars(ov, OverheadKey(k)))
        ELSE m[k]]

\* calibration_stats = read_calibration_stats(calib_csv)
PreemptReadCalibration ==
    /\ pc = "main"
    /\ parser = PreemptScript
    /\ LET err == OpenForReading(fs, CsvPath)
       IN  IF err # NotRaised
           THEN /\ raised' = err
                /\ pc' = "done"
                /\ UNCHANGED overheads
           ELSE /\ overheads' = preempt_read_calibration_stats(fs[CsvPath])
                /\ pc' = "loop"
                /\ UNCHANGED raised
    /\ UNCHANGED <<parseVars, statVars, profiles, adjusted, fs, todo, results, written,
                   pairVars, testVars>>

\* One iteration of "for r in rtoses" of step 2: raw_measurements[r]
PreemptIteration ==
    /\ pc = "loop"
    /\ parser = PreemptScript
    /\ todo # <<>>
    /\ LET r == Head(todo)
           fname == TestFile(parser, r)
       IN  /\ todo' = Tail(todo)
           /\ current' = r
           /\ IF ~Exists(fs, fname)
              THEN /\ results' = ListAppend(results, <<>>)
                   /\ UNCHANGED <<calibration, measurements>>
              ELSE \E ov \in {Get(overheads, r, EmptyDict)} :
                   \E meas \in {[i \in 1..Len(fs[fname]) |-> PreemptCorrect(fs[fname][i], ov)]} :
                       /\ calibration' = ov
                       /\ measurements' = meas
                       /\ results' = ListAppend(results, meas)
    /\ UNCHANGED <<pc, parser, lines, summary, jitter, statVars, lockVars, fs, written,
                   raised, pairVars, testVars>>

PreemptMetricKeys ==
    <<"time_period_total", "cycle_count", "icache_miss", "dcache_access", "dcache_miss">>

AllNaN == [min |-> NaN, max |-> NaN, jitter |-> NaN, robust_avg |-> NaN]

\* summary_stats(values) of the script
preempt_summary_stats(vals) ==
    IF vals = <<>> THEN AllNaN
    ELSE [min |-> Rat(PyMin(vals), 1), max |-> Rat(PyMax(vals), 1),
          jitter |-> Rat(PyMax(vals) - PyMin(vals), 1), robust_avg |-> NpMedian(vals)]

\* [m[key] for m in measurements if not np.isnan(m[key])], in hundredths:
\* time_period_total is the one metric main leaves in counts
RECURSIVE PreemptValues(_, _)
PreemptValues(meas, key) ==
    IF meas = <<>> THEN <<>>
    ELSE (IF Head(meas)[key] # NanCount
          THEN <<IF key = "time_period_total" THEN 100 * Head(meas)[key]
                 ELSE Head(meas)[key]>>
          ELSE <<>>) \o PreemptValues(Tail(meas), key)

\* compute_summary(measurements, metric_keys)
compute_summary(meas) ==
    [k \in {PreemptMetricKeys[i] : i \in 1..Len(PreemptMetricKeys)} |->
        preempt_summary_stats(PreemptValues(meas, k))]

\* raw_stat[field] - calib_val if not np.isnan(raw_stat[field]) else np.nan
LessCalib(x, calib_val) == IF x = NaN THEN NaN ELSE Rat(x.num - calib_val * x.den, x.den)

\* compute_corrected_summary(raw_summary, calib_avgs); calib_avgs holds a
\* number for every key of raw_summary, so the else branch is never taken
compute_corrected_summary(raw_summary, calib_avgs) ==
    [k \in DOMAIN raw_summary |->
        [min |-> LessCalib(raw_summary[k].min, calib_avgs[k]),
         max |-> LessCalib(raw_summary[k].max, calib_avgs[k]),
         jitter |-> raw_summary[k].jitter,
         robust_avg |-> LessCalib(raw_summary[k].robust_avg, calib_avgs[k])]]

\* the dict calib main builds for an RTOS in step 3
PreemptCalib(calibration_stats, r) ==
    [cycle_count |-> Get(Get(calibration_stats, r, EmptyDict), "cycle", 0),
     icache_miss |-> Get(Get(calibration_stats, r, EmptyDict), "icache", 0),
     dcache_access |-> Get(Get(calibration_stats, r, EmptyDict), "dcache_access", 0),
     dcache_miss |-> Get(Get(calibration_stats, r, EmptyDict), "dcache_miss", 0),
     time_period_total |-> 0]

\* Steps 3 and 4 of main, after the loop of step 2: raw_summary and
\* corrected_summary of every RTOS, written as the RAW and CORRECTED rows of
\* summary.csv.  results holds raw_measurements in the order of rtoses.
PreemptFinish ==
    /\ pc = "loop"
    /\ parser = PreemptScript
    /\ todo = <<>>
    /\ summary' = [i \in 1..Len(Rtoses) |->
                     [rtos |-> Rtoses[i],
                      RAW |-> compute_summary(results[i]),
                      CORRECTED |-> compute_corrected_summary(compute_summary(results[i]),
                                        PreemptCalib(overheads, Rtoses[i]))]]
    /\ fs' = WriteFile(fs, <<"summary.csv">>)
    /\ written' = ListAppend(written, <<"summary.csv">>)
    /\ pc' = "done"
    /\ UNCHANGED <<parser, calibration, lines, current, measurements, jitter, statVars,
                   lockVars, todo, results, raised, pairVars, testVars>>

\* the profile sections of a log, as parse_sync_file returns them
PreemptSection(c, i, a, d) ==
    [relative_time |-> 0, time_period_total |-> MaxRaw, task1_counter |-> NanCount,
     task2_counter |-> NanCount, avg_time_iteration |-> NanCount,
     cycle_count |-> c, icache_miss |-> i, dcache_access |-> a, dcache_miss |-> d]

PreemptTexts ==
    {<<>>,
     <<PreemptSection(MaxRaw + 4, MaxRaw + 4, MaxRaw + 4, MaxRaw + 4)>>,
     <<PreemptSection(MaxRaw, NanCount, 0, MaxRaw + 4),
       PreemptSection(NanCount, MaxRaw + 4, NanCount, NanCount)>>}

PreemptCsvTexts ==
    {<< >>,
     <<[RTOS |-> "FreeRTOS", Mean_Overhead_Cycles |-> 100 * MaxCal]>>,
     <<[RTOS |-> "FreeRTOS", Mean_Overhead_Cycles |-> 100 * MaxCal,
        Mean_Overhead_ICache |-> 200, Mean_Overhead_DCache_Access |-> 300,
        Mean_Overhead_DCache_Miss |-> 400],
       [RTOS |-> "threadx", Mean_Overhead_Cycles |-> 0]>>}

InitPreempt ==
    /\ InitRun({PreemptScript})
    /\ \E tp \in SUBSET RtosSet, cp \in SUBSET {CsvPath} :
          \E tf \in [tp -> PreemptTexts], cf \in [cp -> PreemptCsvTexts] :
             fs = [p \in {TestFile(parser, r) : r \in tp} \cup cp |->
                      IF p \in cp THEN cf[p] ELSE tf[p[1]]]

NextPreempt ==
    \/ PreemptReadCalibration
    \/ PreemptIteration
    \/ PreemptFinish

SpecPreempt == InitPreempt /\ [][NextPreempt]_vars

(***************************************************************************)
(* default_tests/task_locking_test: main up to the adjusted profiles.  A   *)
(* file name is <<system, rest>>, split at its first "_"; a test log is    *)
(* held as the profile list parse_test_file builds from it.  Numbers in    *)
(* the adjusted profiles are held as rationals.                            *)
(***************************************************************************)
LockScript == "task_locking_test"
CalibSuffix == "_pmu_calibaration.txt"
TestSuffix == "_thread_locking_test.txt"

\* glob.glob(os.path.join(args.folder, "*" + suffix))
Glob(fsys, suffix) == {f \in DOMAIN fsys : f[2] = suffix}

\* os.path.basename(f).split("_")[0]
SystemOf(f) == f[1]

\* the values parse_calibration_file collects for a key over the whole file
RECURSIVE LockMatched(_, _)
LockMatched(text, key) ==
    IF text = <<>> THEN <<>>
    ELSE (IF CalibrationMatch(Head(text), key) # NoMatch
          THEN <<CalibrationMatch(Head(text), key)>> ELSE <<>>)
            \o LockMatched(Tail(text), key)

\* parse_calibration_file(filepath) of task_locking_test
lock_parse_calibration_file(text) ==
    [k \in LockKeys |->
        IF LockMatched(text, k) # <<>> THEN StatisticsMedian(LockMatched(text, k))
        ELSE Zero]

\* a profile entry with its cycle count as a number of the adjusted list
AsNumbers(profile) ==
    [k \in DOMAIN profile |-> IF k = "cycle" THEN Rat(profile[k], 1) ELSE profile[k]]

\* main: the files are globbed, parsed per system, and the profiles of each
\* test system adjusted with the calibration stored under the same key
LockMain ==
    /\ pc = "main"
    /\ parser = LockScript
    /\ LET calib_files == Glob(fs, CalibSuffix)
           test_files == Glob(fs, TestSuffix)
       IN  IF calib_files = {} /\ test_files = {}
           THEN UNCHANGED <<overheads, profiles, adjusted>>
           ELSE \E calibrations \in {[s \in {SystemOf(f) : f \in calib_files} |->
                                        lock_parse_calibration_file(fs[<<s, CalibSuffix>>])]} :
                \E tests \in {[s \in {SystemOf(f) : f \in test_files} |->
                                        fs[<<s, TestSuffix>>]]} :
                    /\ overheads' = calibrations
                    /\ profiles' = tests
                    /\ adjusted' =
                         [system \in DOMAIN tests |->
                            IF system \in DOMAIN calibrations
                            THEN [i \in 1..Len(tests[system]) |->
                                    AdjustProfile(tests[system][i], calibrations[system])]
                            ELSE [i \in 1..Len(tests[system]) |->
                                    AsNumbers(tests[system][i])]]
    /\ pc' = "done"
    /\ UNCHANGED <<parseVars, statVars, runVars, pairVars, testVars>>

CalibSystems == {"FreeRTOS", "threadx"}
TestSystems == {"freertos", "threadx", "zephyr"}

LockCalTexts ==
    {<<MetricLine("Cycle Count", FALSE, 1, MaxCal)>>,
     <<MetricLine("Cycle Count", FALSE, 1, 0), MetricLine("ICache Miss", TRUE, 1, 0)>>}

LockTestTexts ==
    {<<>>, <<[label |-> "A", cycle |-> MaxRaw]>>,
     <<[label |-> "A", cycle |-> MaxRaw, icache_miss |-> 0], [label |-> "B"]>>}

InitLockMain ==
    /\ InitRun({LockScript})
    /\ \E cs \in SUBSET CalibSystems, ts \in SUBSET TestSystems :
          \E cf \in [cs -> LockCalTexts], tf \in [ts -> LockTestTexts] :
             fs = [f \in {<<s, CalibSuffix>> : s \in cs} \cup {<<s, TestSuffix>> : s \in ts} |->
                      IF f[2] = CalibSuffix THEN cf[f[1]] ELSE tf[f[1]]]

NextLockMain == LockMain

SpecLockMain == InitLockMain /\ [][NextLockMain]_vars

(***************************************************************************)
(* The block parsers on files of several blocks, some of them empty.       *)
(***************************************************************************)
MaxBlockLines == 4   \* lines of a log of profile blocks

BlockLines ==
    {DelimLine(d) : d \in Delims}
    \cup {JunkLine, MetricLine("Cycle Count", FALSE, 1, MaxRaw),
          <<Space>> \o MetricLine("DCache Miss", TRUE, 1, 0)}

InitBlocks == InitParse(BlockParsers, {ZeroCal})

NextBlocks ==
    \/ ReadLine(BlockLines, MaxBlockLines)
    \/ BlockEof

SpecBlocks == InitBlocks /\ [][NextBlocks]_vars

(***************************************************************************)
(* parse_overall_performance (context_switching_test) and parse_sync_file  *)
(* (specific_snychronisation_test), line by line.                          *)
(***************************************************************************)
MaxPairLines == 4    \* lines of a log of time periods

PairParsers == {"parse_overall_performance", "parse_sync_file"}

PairLines ==
    {RelLine(v) : v \in {0, MaxRel}}
    \cup {TptLine(v) : v \in {0, MaxRaw}}
    \cup {<<Space>> \o RelLine(MaxRel) \o <<Space>> \o TptLine(0),
          <<Lit("Relative Time"), Lit(":")>>}

\* One iteration of "for line in f"
ReadPairLine ==
    /\ pc = "pairing"
    /\ Len(lines) < MaxPairLines
    /\ \E raw \in PairLines :
          /\ lines' = Append(lines, raw)
          /\ \E st \in {PairStep([current_rel |-> current_rel,
                                  relative_times |-> relative_times,
                                  processing_times |-> processing_times], raw)} :
                /\ current_rel' = st.current_rel
                /\ relative_times' = st.relative_times
                /\ processing_times' = st.processing_times
    /\ UNCHANGED <<pc, parser, calibration, current, measurements, summary, jitter,
                   statVars, lockVars, runVars, testVars>>

\* return relative_times, processing_times
PairEof ==
    /\ pc = "pairing"
    /\ pc' = "paired"
    /\ UNCHANGED <<parseVars, statVars, lockVars, runVars, pairVars, testVars>>

InitPair ==
    /\ pc = "pairing"
    /\ parser \in PairParsers
    /\ calibration = EmptyDict
    /\ lines = <<>>
    /\ current = None
    /\ measurements = <<>>
    /\ summary = IdleStat
    /\ jitter = IdleStat
    /\ values = <<>>
    /\ trim_fraction = DefaultTrim
    /\ stats = IdleStat
    /\ overheads = EmptyDict
    /\ profiles = <<>>
    /\ adjusted = <<>>
    /\ IdleRun

NextPair ==
    \/ ReadPairLine
    \/ PairEof

SpecPair == InitPair /\ [][NextPair]_vars

(***************************************************************************)
(* default_tests/critical_section_test: main.                              *)
(***************************************************************************)
DefaultCriticalScript == "default_tests/critical_section_test"

KeyError(key) == [exc |-> "KeyError", path |-> <<key>>, mode |-> ""]

\* calibration_stats = read_calibration_stats(csv_path), before the loop
CriticalReadCalibration ==
    /\ pc = "main"
    /\ parser = DefaultCriticalScript
    /\ LET err == OpenForReading(fs, CsvPath)
       IN  IF err # NotRaised
           THEN /\ raised' = err
                /\ pc' = "done"
                /\ UNCHANGED overheads
           ELSE /\ overheads' = read_calibration_stats(fs[CsvPath])
                /\ pc' = "loop"
                /\ UNCHANGED raised
    /\ UNCHANGED <<parseVars, statVars, profiles, adjusted, fs, todo, results, written,
                   pairVars, testVars>>

\* One iteration of "for rtos in rtoses": cycles = [m['cycle'] for m in
\* pmu_meas] raises KeyError on the first record without the key.
CriticalIteration ==
    /\ pc = "loop"
    /\ parser = DefaultCriticalScript
    /\ todo # <<>>
    /\ LET rtos == Head(todo)
           test_file == TestFile(parser, rtos)
       IN  /\ current' = rtos
           /\ IF ~Exists(fs, test_file)
              THEN /\ todo' = Tail(todo)
                   /\ UNCHANGED <<calibration, measurements, results, fs, written,
                                  raised, pc>>
              ELSE \E cal \in {Get(overheads, rtos, MissingCalibration)} :
                   \E pts \in {parse_overall_performance(fs[test_file]).processing_times} :
                   \E pmu \in {parse_pmu_metrics(fs[test_file], cal)} :
                   \E entry \in {OverallEntry(rtos, pts)} :
                       /\ calibration' = cal
                       /\ IF pts = <<>>
                          THEN /\ todo' = Tail(todo)
                               /\ UNCHANGED <<measurements, results, fs, written,
                                              raised, pc>>
                          ELSE /\ measurements' = pmu
                               /\ IF \E i \in 1..Len(pmu) : "cycle" \notin DOMAIN pmu[i]
                                  THEN /\ raised' = KeyError("cycle")
                                       /\ pc' = "done"
                                       /\ results' = ListAppend(results, entry)
                                       /\ fs' = SavePlot(fs, <<rtos, "overall">>)
                                       /\ written' = ListAppend(written,
                                                         <<"plot", rtos, "overall">>)
                                       /\ UNCHANGED todo
                                  ELSE /\ todo' = Tail(todo)
                                       /\ UNCHANGED <<raised, pc>>
                                       /\ results' = ListAppend(results,
                                            IF pmu # <<>>
                                            THEN [k \in DOMAIN entry \cup {"avg_cycles"} |->
                                                    IF k = "avg_cycles"
                                                    THEN AvgCycles(Series(pmu, "cycle"))
                                                    ELSE entry[k]]
                                            ELSE entry)
                                       /\ fs' = IF pmu # <<>>
                                                THEN SavePlot(SavePlot(fs, <<rtos, "overall">>),
                                                              <<rtos, "pmu">>)
                                                ELSE SavePlot(fs, <<rtos, "overall">>)
                                       /\ written' = written
                                            \o << <<"plot", rtos, "overall">> >>
                                            \o (IF pmu # <<>>
                                                THEN << <<"plot", rtos, "pmu">> >>
                                                ELSE <<>>)
    /\ UNCHANGED <<parser, lines, summary, jitter, statVars, lockVars, pairVars, testVars>>

\* After the loop: the comparison figures when there is a summary, then the
\* summary CSV in "plot".
CriticalFinish ==
    /\ pc = "loop"
    /\ parser = DefaultCriticalScript
    /\ todo = <<>>
    /\ LET plotted == IF results # <<>> THEN SavePlot(fs, <<"comparison">>) ELSE fs
           summary_file == <<"plot", "summary_critical_section.csv">>
           err == OpenForWriting(plotted, PlotDir, summary_file)
       IN  /\ raised' = err
           /\ fs' = IF err = NotRaised THEN WriteFile(plotted, summary_file) ELSE plotted
           /\ written' = written
                \o (IF results # <<>> THEN << <<"plot", "comparison">> >> ELSE <<>>)
                \o (IF err = NotRaised THEN <<summary_file>> ELSE <<>>)
    /\ pc' = "done"
    /\ UNCHANGED <<parser, calibration, lines, current, measurements, summary, jitter,
                   todo, results, statVars, lockVars, pairVars, testVars>>

CriticalTexts ==
    {<<RelLine(0), TptLine(1), DelimLine("Profile Point:"),
       MetricLine("Cycle Count", FALSE, 1, MaxRaw)>>,
     <<RelLine(0), TptLine(1), DelimLine("Profile Point:"),
       MetricLine("DCache Miss", TRUE, 1, MaxRaw)>>,
     <<RelLine(0), TptLine(1), DelimLine("Profile Point:"), DelimLine("Profile Point:"),
       MetricLine("Cycle Count", FALSE, 1, 0)>>,
     <<DelimLine("Profile Entry:"), MetricLine("DCache Miss", TRUE, 1, MaxRaw)>>}

InitCritical ==
    /\ InitRun({DefaultCriticalScript})
    /\ \E tp \in SUBSET RtosSet, cp \in SUBSET {CsvPath}, dirs \in SUBSET {PlotDir} :
          \E tf \in [tp -> CriticalTexts], cf \in [cp -> CsvTexts] :
             fs = [p \in {TestFile(parser, r) : r \in tp} \cup cp \cup dirs |->
                      IF p \in dirs THEN <<>>
                      ELSE IF p \in cp THEN cf[p] ELSE tf[p[1]]]

NextCritical ==
    \/ CriticalReadCalibration
    \/ CriticalIteration
    \/ CriticalFinish

SpecCritical == InitCritical /\ [][NextCritical]_vars

(***************************************************************************)
(* robust_average with its default trim fraction, with the branch it takes *)
(* and the array it averages.                                              *)
(***************************************************************************)
MaxDefaultLen == 10  \* values passed to robust_average(values)

DefaultSamples == {0, 3}

\* the return statement robust_average reaches
robust_average_branch(vals, f) ==
    LET n == Len(vals)
        trim_count == TrimCount(n, f)
    IN  IF n = 0 THEN "empty"
        ELSE IF n - 2 * trim_count <= 0 THEN "fallback"
        ELSE "trimmed"

\* the array np.mean is applied to: arr in the fallback, trimmed otherwise
robust_average_averaged(vals, f) ==
    LET n == Len(vals)
        trim_count == TrimCount(n, f)
    IN  IF n - 2 * trim_count <= 0 THEN vals
        ELSE SubSeq(Sort(vals), trim_count + 1, n - trim_count)

\* robust_average(values) called with the default trim_fraction
RobustAverageDefault ==
    /\ pc = "collecting"
    /\ trim_fraction = DefaultTrim
    /\ stats' = [by |-> "robust_average(values)",
                 branch |-> robust_average_branch(values, trim_fraction),
                 trim_count |-> TrimCount(Len(values), trim_fraction),
                 averaged |-> IF values = <<>> THEN <<>>
                              ELSE robust_average_averaged(values, trim_fraction),
                 result |-> robust_average(values, trim_fraction)]
    /\ pc' = "done"
    /\ UNCHANGED <<values, trim_fraction, parseVars, lockVars, runVars, pairVars, testVars>>

InitDefaultTrim == InitCollect({DefaultTrim})

NextDefaultTrim ==
    \/ Collect(DefaultSamples, MaxDefaultLen)
    \/ RobustAverageDefault

SpecDefaultTrim == InitDefaultTrim /\ [][NextDefaultTrim]_vars

(***************************************************************************)
(* parse_test_file of default_tests/task_locking_test and of               *)
(* default_tests/thread_locking_test: the while loop over the lines of the *)
(* file, one iteration of the outer loop per step.  Lines are numbered     *)
(* from 1.                                                                 *)
(***************************************************************************)
MaxTestLines == 4    \* lines of a thread-locking test log

TestParsers == {"task_locking_test", "thread_locking_test"}

LockMarker == Lit("**** Thread Locking Benchmark ****")
MarkerLine(v) == <<LockMarker, Space>> \o MetricLine("Relative Time", FALSE, 1, v)
OpsLine(v) == MetricLine("Locking Operations in Period", FALSE, 1, v)
BlankLine == <<>>

\* re.search of the relative time marker: task_locking_test wants the banner
\* and one space in front of "Relative Time:", thread_locking_test does not
RECURSIVE MarkerFrom(_, _)
MarkerFrom(line, p) ==
    IF p + 2 > Len(line) THEN NoMatch
    ELSE IF /\ line[p] = LockMarker
            /\ line[p + 1] = Space
            /\ MatchAt(line, p + 2, "Relative Time", FALSE, 0) # NoMatch
    THEN MatchAt(line, p + 2, "Relative Time", FALSE, 0)
    ELSE MarkerFrom(line, p + 1)

ReSearchMarker(script, line) ==
    IF script = "task_locking_test" THEN MarkerFrom(line, 1)
    ELSE ReSearchPlain(line, "Relative Time")

\* re.search(r'Profile (?:Entry|Point):\s*([\w\d]+)', line) of task_locking_test
\* and re.search(r'Profile (?:Entry|Point):', line) of thread_locking_test
ReSearchProfile(script, line) ==
    \E p \in 1..Len(line) :
        /\ \E d \in Delims : line[p] = Lit(d)
        /\ script = "task_locking_test" =>
              LET q == SkipWs(line, p + 1)
              IN  q <= Len(line) /\ line[q] # Lit(":")

\* profile_label = m.group(1)
ProfileLabel(line) ==
    LET p == CHOOSE p \in 1..Len(line) : \E d \in Delims : line[p] = Lit(d)
    IN  line[SkipWs(line, p + 1)].s

\* the four searches of the inner loop on one line
StoreMetrics(profile, line2) ==
    LET found == {k \in LockKeys : CalibrationMatch(line2, k) # NoMatch}
    IN  [k \in DOMAIN profile \cup found |->
            IF k \in found THEN CalibrationMatch(line2, k) ELSE profile[k]]

\* while j < len(lines) and lines[j].strip(): ...; j += 1
RECURSIVE ScanProfile(_, _, _)
ScanProfile(ls, j, profile) ==
    IF j <= Len(ls) /\ Strip(ls[j]) # <<>>
    THEN ScanProfile(ls, j + 1, StoreMetrics(profile, ls[j]))
    ELSE [j |-> j, profile |-> profile]

\* One iteration of "while i < len(lines)".
TestFileStep ==
    /\ pc = "scanning"
    /\ line_index <= Len(lines)
    /\ \E line \in {lines[line_index]} :
       \E rt \in {ReSearchMarker(parser, line)} :
       \E m_ops \in {IF rt # NoMatch /\ line_index + 1 <= Len(lines)
                     THEN ReSearchPlain(lines[line_index + 1], "Locking Operations in Period")
                     ELSE NoMatch} :
       \E times \in {IF rt # NoMatch THEN ListAppend(data.relative_times, rt)
                     ELSE data.relative_times} :
          IF m_ops # NoMatch
          THEN /\ data' = [data EXCEPT !.relative_times = times,
                                       !.locking_ops = ListAppend(@, m_ops)]
               /\ line_index' = line_index + 2
          ELSE IF ReSearchProfile(parser, line)
          THEN \E scan \in {ScanProfile(lines, line_index + 1,
                               IF parser = "task_locking_test"
                               THEN [label |-> ProfileLabel(line)] ELSE EmptyDict)} :
                  /\ data' = [data EXCEPT !.relative_times = times,
                                          !.profiles = ListAppend(@, scan.profile)]
                  /\ line_index' = scan.j
          ELSE /\ data' = [data EXCEPT !.relative_times = times]
               /\ line_index' = line_index + 1
    /\ UNCHANGED <<pc, parseVars, statVars, lockVars, runVars, pairVars>>

\* return data
TestFileReturn ==
    /\ pc = "scanning"
    /\ line_index > Len(lines)
    /\ pc' = "returned"
    /\ UNCHANGED <<parseVars, statVars, lockVars, runVars, pairVars, testVars>>

TestFileLines ==
    {MarkerLine(MaxRel), MetricLine("Relative Time", FALSE, 1, 0), OpsLine(MaxRaw),
     DelimLine("Profile Entry:"), BlankLine,
     MetricLine("Cycle Count", FALSE, 1, 0), MetricLine("ICache Miss", TRUE, 1, MaxRaw)}

InitTestFile ==
    /\ pc = "scanning"
    /\ parser \in TestParsers
    /\ calibration = EmptyDict
    /\ lines \in UNION {[1..n -> TestFileLines] : n \in 0..MaxTestLines}
    /\ current = None
    /\ measurements = <<>>
    /\ summary = IdleStat
    /\ jitter = IdleStat
    /\ values = <<>>
    /\ trim_fraction = DefaultTrim
    /\ stats = IdleStat
    /\ overheads = EmptyDict
    /\ profiles = <<>>
    /\ adjusted = <<>>
    /\ fs = EmptyDict
    /\ todo = <<>>
    /\ results = <<>>
    /\ written = <<>>
    /\ raised = NotRaised
    /\ current_rel = NoRel
    /\ relative_times = <<>>
    /\ processing_times = <<>>
    /\ line_index = 1
    /\ data = NoData

NextTestFile ==
    \/ TestFileStep
    \/ TestFileReturn

SpecTestFile == InitTestFile /\ [][NextTestFile]_vars

(***************************************************************************)
(* specific_snychronisation_test: main.  What main prints is kept in       *)
(* written as <<"stdout", message, rtos>>.                                 *)
(***************************************************************************)
SyncScript == "specific_snychronisation_test"

OptiFile(rtos) == <<rtos, "_opti_sync_mechanisms.txt">>
RefFile(rtos) == <<rtos, "_reference.txt">>

MinOf3(a, b, c) == IF a <= b /\ a <= c THEN a ELSE IF b <= c THEN b ELSE c

\* plot_sync_comparison with the three lists plotted as they are passed in
plot_sync_comparison_untruncated(rtos, rel_times, opti_vals, ref_vals) ==
    [rtos |-> rtos, rel_times |-> rel_times, opti_vals |-> opti_vals,
     ref_vals |-> ref_vals,
     differences |-> [i \in 1..MinOf3(Len(opti_vals), Len(opti_vals), Len(ref_vals)) |->
                         ref_vals[i] - opti_vals[i]]]

\* plot_sync_comparison(rtos, rel_times, opti_vals, ref_vals): the series it
\* plots
plot_sync_comparison(rtos, rel_times, opti_vals, ref_vals) ==
    LET n == MinOf3(Len(rel_times), Len(opti_vals), Len(ref_vals))
    IN  [rtos |-> rtos,
         rel_times |-> SubSeq(rel_times, 1, n),
         opti_vals |-> SubSeq(opti_vals, 1, n),
         ref_vals |-> SubSeq(ref_vals, 1, n),
         differences |-> [i \in 1..n |-> ref_vals[i] - opti_vals[i]]]

\* One iteration of "for rtos in rtoses" of main
SyncIteration ==
    /\ pc = "main"
    /\ parser = SyncScript
    /\ todo # <<>>
    /\ \E rtos \in {Head(todo)} :
          /\ todo' = Tail(todo)
          /\ current' = rtos
          /\ IF ~Exists(fs, OptiFile(rtos)) \/ ~Exists(fs, RefFile(rtos))
             THEN /\ written' = ListAppend(written, <<"stdout", "Missing files", rtos>>)
                  /\ UNCHANGED <<measurements, results, fs>>
             ELSE \E opti \in {parse_overall_performance(fs[OptiFile(rtos)])} :
                  \E ref \in {parse_overall_performance(fs[RefFile(rtos)])} :
                  \E so \in {compute_stats(opti.processing_times)} :
                  \E sr \in {compute_stats(ref.processing_times)} :
                     /\ results' = ListAppend(results,
                           [rtos |-> Capitalize(rtos),
                            avg_opti |-> so.avg, min_opti |-> so.min, max_opti |-> so.max,
                            avg_ref |-> sr.avg, min_ref |-> sr.min, max_ref |-> sr.max])
                     /\ measurements' = plot_sync_comparison(rtos, opti.relative_times,
                                            opti.processing_times, ref.processing_times)
                     /\ fs' = SavePlot(fs, <<rtos, "_sync_comparison.png">>)
                     /\ written' = written
                          \o (IF opti.relative_times # ref.relative_times
                              THEN << <<"stdout", "Warning: Relative time markers differ", rtos>> >>
                              ELSE <<>>)
                          \o << <<"plot", rtos, "_sync_comparison.png">> >>
    /\ UNCHANGED <<pc, parser, calibration, lines, summary, jitter, statVars, lockVars,
                   raised, pairVars, testVars>>

\* After the loop: plot_average_comparison(summary) and summary_sync.csv
SyncFinish ==
    /\ pc = "main"
    /\ parser = SyncScript
    /\ todo = <<>>
    /\ fs' = WriteFile(SavePlot(fs, <<"average_sync_comparison.png">>), <<"summary_sync.csv">>)
    /\ written' = written \o << <<"plot", "average_sync_comparison.png">>,
                                <<"summary_sync.csv">> >>
    /\ pc' = "done"
    /\ UNCHANGED <<parseVars, statVars, lockVars, todo, results, raised, pairVars,
                   testVars>>

SyncFileTexts ==
    {<<RelLine(0), TptLine(MaxRaw)>>,
     <<RelLine(MaxRel), TptLine(0), RelLine(0), TptLine(MaxRaw)>>,
     <<RelLine(0), TptLine(0), TptLine(MaxRaw)>>}

InitSync ==
    /\ InitRun({SyncScript})
    /\ \E op \in SUBSET RtosSet, rp \in SUBSET RtosSet :
          \E tf \in [op -> SyncFileTexts], rf \in [rp -> SyncFileTexts] :
             fs = [p \in {OptiFile(r) : r \in op} \cup {RefFile(r) : r \in rp} |->
                      IF p[2] = "_reference.txt" THEN rf[p[1]] ELSE tf[p[1]]]

NextSync ==
    \/ SyncIteration
    \/ SyncFinish

SpecSync == InitSync /\ [][NextSync]_vars

(***************************************************************************)
(* parse_time_period_totals of "tests auf default"/thread_metric_benchmark *)
(* (regex, float) and of thread_metric_benchmark (startswith, int).  A     *)
(* line is held as its text up to and including the first colon and the    *)
(* characters after it.                                                    *)
(***************************************************************************)
MaxTotalLines == 3   \* lines of a thread-metric result file

RegexAnalyser == "tests auf default/thread_metric_benchmark"
SplitAnalyser == "thread_metric_benchmark"

DigitSeq == <<"0", "1", "2", "3", "4", "5", "6", "7", "8", "9">>
DigitChars == {DigitSeq[i] : i \in 1..Len(DigitSeq)}
DigitVal(c) == (CHOOSE i \in 1..Len(DigitSeq) : DigitSeq[i] = c) - 1

\* str.strip() and the \s* of the pattern, on characters
RECURSIVE LStripChars(_)
LStripChars(str) ==
    IF str # <<>> /\ Head(str) = " " THEN LStripChars(Tail(str)) ELSE str

RECURSIVE RStripChars(_)
RStripChars(str) ==
    IF str # <<>> /\ str[Len(str)] = " " THEN RStripChars(SubSeq(str, 1, Len(str) - 1))
    ELSE str

\* ([\d\.]+): the longest run of digits and dots at the start
RECURSIVE NumericRun(_)
NumericRun(str) ==
    IF str # <<>> /\ Head(str) \in DigitChars \cup {"."}
    THEN <<Head(str)>> \o NumericRun(Tail(str)) ELSE <<>>

\* parts[1] of line.split(":"): the text between the first and second colon
RECURSIVE UpToColon(_)
UpToColon(str) ==
    IF str # <<>> /\ Head(str) # ":" THEN <<Head(str)>> \o UpToColon(Tail(str)) ELSE <<>>

RECURSIVE DigitsValue(_)
DigitsValue(str) ==
    IF str = <<>> THEN 0
    ELSE 10 * DigitsValue(SubSeq(str, 1, Len(str) - 1)) + DigitVal(str[Len(str)])

RECURSIVE Pow10(_)
Pow10(k) == IF k = 0 THEN 1 ELSE 10 * Pow10(k - 1)

Conversion(ok, val) == [ok |-> ok, val |-> val]

\* int(total_str): digits only
PyInt(str) ==
    IF str # <<>> /\ \A i \in 1..Len(str) : str[i] \in DigitChars
    THEN Conversion(TRUE, Rat(DigitsValue(str), 1))
    ELSE Conversion(FALSE, NaN)

\* float(num_str) on a string of digits and dots: at most one dot and at
\* least one digit
PyFloat(str) ==
    LET dots == {i \in 1..Len(str) : str[i] = "."}
        whole == SelectSeq(str, LAMBDA c : c # ".")
    IN  IF Cardinality(dots) <= 1 /\ whole # <<>>
           /\ \A i \in 1..Len(str) : str[i] \in DigitChars \cup {"."}
        THEN Conversion(TRUE,
                 Rat(DigitsValue(whole),
                     IF dots = {} THEN 1
                     ELSE Pow10(Len(str) - (CHOOSE i \in dots : TRUE))))
        ELSE Conversion(FALSE, NaN)

\* the string the parser hands to the conversion, or NoField when the line
\* is not one of its lines
NoField == <<"no match">>

TotalField(script, line) ==
    IF script = RegexAnalyser
    THEN IF line.head \in {"Time Period Total:", "time period total:"}
            /\ NumericRun(LStripChars(line.rest)) # <<>>
         THEN NumericRun(LStripChars(line.rest)) ELSE NoField
    ELSE IF line.head = "Time Period Total:"
         THEN RStripChars(LStripChars(UpToColon(line.rest))) ELSE NoField

\* the loop body with the ValueError of the conversion left uncaught
TotalsStepUncaught(script, st, line) ==
    LET field == TotalField(script, line)
        conv == IF script = RegexAnalyser THEN PyFloat(field) ELSE PyInt(field)
    IN  IF field = NoField THEN st
        ELSE IF conv.ok THEN [st EXCEPT !.totals = ListAppend(@, conv.val)]
        ELSE [st EXCEPT !.raised = ValueError]

\* One iteration of "for line in f": try: totals.append(conversion) except
\* ValueError: the field is skipped
TotalsStep(script, st, line) ==
    LET field == TotalField(script, line)
        conv == IF script = RegexAnalyser THEN PyFloat(field) ELSE PyInt(field)
    IN  IF field = NoField THEN st
        ELSE IF conv.ok THEN [st EXCEPT !.totals = ListAppend(@, conv.val)]
        ELSE st

TotalLine(head, rest) == [head |-> head, rest |-> rest]

TotalLines ==
    {TotalLine("Time Period Total:", <<" ", "1", "2">>),
     TotalLine("Time Period Total:", <<" ", "1", ".", "2">>),
     TotalLine("Time Period Total:", <<" ", "1", ".", "2", ".", "0">>),
     TotalLine("Time Period Total:", <<" ", ".">>),
     TotalLine("Time Period Total:", <<" ", "x">>),
     TotalLine("Time Period Total:", <<"2", " ", ":", "1">>),
     TotalLine("time period total:", <<" ", "2">>),
     TotalLine("Cycle Count:", <<" ", "1">>)}

\* the next line of the file is read
ReadTotalLine ==
    /\ pc = "totals"
    /\ raised = NotRaised
    /\ Len(lines) < MaxTotalLines
    /\ \E line \in TotalLines :
          /\ lines' = Append(lines, line)
          /\ \E st \in {TotalsStep(parser, [totals |-> values, raised |-> raised], line)} :
                /\ values' = st.totals
                /\ raised' = st.raised
    /\ UNCHANGED <<pc, parser, calibration, current, measurements, summary, jitter,
                   trim_fraction, stats, lockVars, fs, todo, results, written, pairVars,
                   testVars>>

\* return totals, or the exception leaves the function
TotalsEof ==
    /\ pc = "totals"
    /\ pc' = "done"
    /\ UNCHANGED <<parseVars, statVars, lockVars, runVars, pairVars, testVars>>

InitTotals ==
    /\ pc = "totals"
    /\ parser \in {RegexAnalyser, SplitAnalyser}
    /\ calibration = EmptyDict
    /\ lines = <<>>
    /\ current = None
    /\ measurements = <<>>
    /\ summary = IdleStat
    /\ jitter = IdleStat
    /\ values = <<>>
    /\ trim_fraction = DefaultTrim
    /\ stats = IdleStat
    /\ overheads = EmptyDict
    /\ profiles = <<>>
    /\ adjusted = <<>>
    /\ IdleRun

NextTotals ==
    \/ ReadTotalLine
    \/ TotalsEof

SpecTotals == InitTotals /\ [][NextTotals]_vars

(***************************************************************************)
(* pmu_calibration/analyse.py writes calibration_stats.csv; the analysis   *)
(* mains read it back.  The CSV holds text: the mean is written with       *)
(* f"{mean:.2f}" and read with float().                                    *)
(***************************************************************************)
MaxCountLines == 3   \* lines of a calibration log of analyse.py

AnalyseScript == "pmu_calibration/analyse.py"

\* files: file name -> RTOS label, in insertion order
AnalyseFiles ==
    << [filename |-> <<"freertos_pmu_calibaration.txt">>, rtos |-> "FreeRTOS"],
       [filename |-> <<"zephyr_pmu_calibaration.txt">>, rtos |-> "Zephyr"],
       [filename |-> <<"threadx_pmu_calibaration.txt">>, rtos |-> "ThreadX"] >>

StatisticsError == [exc |-> "StatisticsError", path |-> <<>>, mode |-> ""]

\* [int(m.group(1)) for m in cycle_re.finditer(contents)]
RECURSIVE CycleCounts(_)
CycleCounts(text) ==
    IF text = <<>> THEN <<>>
    ELSE (IF ReSearchCycle(Head(text)) # NoMatch THEN <<ReSearchCycle(Head(text))>>
          ELSE <<>>) \o CycleCounts(Tail(text))

\* str(n) of a non-negative integer, as characters
RECURSIVE IntChars(_)
IntChars(n) ==
    IF n < 10 THEN <<DigitSeq[n + 1]>>
    ELSE IntChars(n \div 10) \o <<DigitSeq[(n % 10) + 1]>>

\* f"{mean:.2f}" of a non-negative number: the integer part, a dot and two
\* decimals, rounded to the nearest hundredth
Format2f(x) ==
    LET h == Round2(x)
    IN  IntChars(h \div 100) \o <<".">>
        \o <<DigitSeq[((h % 100) \div 10) + 1], DigitSeq[(h % 10) + 1]>>

\* the row analyse.py appends to output_rows for one file
OutputRow(rtos, counts) ==
    [RTOS |-> rtos, Mean_Overhead_Cycles |-> Format2f(Mean(counts))]

\* The whole of analyse.py: the three logs are read, and the CSV is written
\* when every log gave a mean.
AnalyseWrite ==
    /\ pc = "analyse"
    /\ parser = AnalyseScript
    /\ \E counts \in {[i \in 1..Len(AnalyseFiles) |->
                          CycleCounts(fs[AnalyseFiles[i].filename])]} :
          IF \E i \in 1..Len(AnalyseFiles) : counts[i] = <<>>
          THEN /\ raised' = StatisticsError
               /\ pc' = "done"
               /\ UNCHANGED <<fs, written>>
          ELSE /\ fs' = Store(fs, CsvPath,
                           [i \in 1..Len(AnalyseFiles) |->
                               OutputRow(AnalyseFiles[i].rtos, counts[i])])
               /\ written' = ListAppend(written, CsvPath)
               /\ pc' = "main"
               /\ UNCHANGED raised
    /\ UNCHANGED <<parseVars, statVars, lockVars, todo, results, pairVars, testVars>>

\* a number in hundredths
Hundredths(x) == (x.num * 100) \div x.den

\* the rows csv.DictReader yields, with float(row['Mean_Overhead_Cycles'])
FloatRows(rows) ==
    [i \in 1..Len(rows) |->
        [RTOS |-> rows[i].RTOS,
         Mean_Overhead_Cycles |-> Hundredths(PyFloat(rows[i].Mean_Overhead_Cycles).val)]]

\* calibration_stats = read_calibration_stats(csv_path) of an analysis main
RoundTripRead ==
    /\ pc = "main"
    /\ parser = AnalyseScript
    /\ overheads' = read_calibration_stats(FloatRows(fs[CsvPath]))
    /\ todo' = Rtoses
    /\ pc' = "loop"
    /\ UNCHANGED <<parseVars, statVars, profiles, adjusted, fs, results, written, raised,
                   pairVars, testVars>>

\* calibration = calibration_stats.get(rtos, {'cycle':0.0, ...}) of one
\* iteration of "for rtos in rtoses"
RoundTripLookup ==
    /\ pc = "loop"
    /\ parser = AnalyseScript
    /\ todo # <<>>
    /\ current' = Head(todo)
    /\ calibration' = Get(overheads, Head(todo), MissingCalibration)
    /\ results' = ListAppend(results, Get(overheads, Head(todo), MissingCalibration))
    /\ todo' = Tail(todo)
    /\ UNCHANGED <<pc, parser, lines, measurements, summary, jitter, statVars, lockVars,
                   fs, written, raised, pairVars, testVars>>

\* the calibration logs: Cycle Count lines
CountLines == {MetricLine("Cycle Count", FALSE, 1, v) : v \in {0, MaxCal}}

CountTexts ==
    UNION {[1..n -> CountLines] : n \in 0..MaxCountLines}

InitRoundTrip ==
    /\ pc = "analyse"
    /\ parser = AnalyseScript
    /\ calibration = EmptyDict
    /\ lines = <<>>
    /\ current = ""
    /\ measurements = <<>>
    /\ summary = IdleStat
    /\ jitter = IdleStat
    /\ values = <<>>
    /\ trim_fraction = DefaultTrim
    /\ stats = IdleStat
    /\ overheads = EmptyDict
    /\ profiles = <<>>
    /\ adjusted = <<>>
    /\ todo = <<>>
    /\ results = <<>>
    /\ written = <<>>
    /\ raised = NotRaised
    /\ current_rel = NoRel
    /\ relative_times = <<>>
    /\ processing_times = <<>>
    /\ line_index = 0
    /\ data = NoData
    /\ \E texts \in [1..Len(AnalyseFiles) -> CountTexts] :
          fs = [p \in {AnalyseFiles[i].filename : i \in 1..Len(AnalyseFiles)} |->
                  texts[CHOOSE i \in 1..Len(AnalyseFiles) : AnalyseFiles[i].filename = p]]

NextRoundTrip ==
    \/ AnalyseWrite
    \/ RoundTripRead
    \/ RoundTripLookup

SpecRoundTrip == InitRoundTrip /\ [][NextRoundTrip]_vars

(***************************************************************************)
(* Vocabulary of the properties: the text of the file read so far,         *)
(* described without the parsers' operators.                               *)
(***************************************************************************)
MaxOf(a, b) == IF a >= b THEN a ELSE b
LastLine == lines[Len(lines)]
IsDelimLine(line) == \E d \in Delims : line = DelimLine(d)
IsMetricLineOf(line, label) ==
    /\ line # <<>>
    /\ \E e \in BOOLEAN, indent \in {<<>>, <<Space>>} :
          line = indent \o MetricLine(label, e, 1, line[Len(line)].n)
RawOf(line) == line[Len(line)].n
\* a delimiter line was read before the last line
BlockOpen == \E i \in 1..(Len(lines) - 1) : IsDelimLine(lines[i])
\* every record the parser holds: the returned ones and the one in progress
Records ==
    {measurements[i] : i \in 1..Len(measurements)}
        \cup (IF current = None THEN {} ELSE {current})

(***************************************************************************)
(* C1: in parse_pmu_metrics, parse_inheritance_file and                    *)
(* parse_benchmark_file every stored value is max(raw - overhead, 0): the  *)
(* record that receives a metric line holds exactly that value under the   *)
(* line's key, and no value of any record is negative.                     *)
(***************************************************************************)
C1_ClampedCorrection ==
    /\ \A r \in Records : \A k \in DOMAIN r : r[k] >= 0
    /\ (pc = "parsing" /\ lines # <<>>) =>
         \A l \in Labels :
            (IsMetricLineOf(LastLine, l)
                /\ (parser = "parse_benchmark_file" \/ BlockOpen)) =>
              LET target == IF parser = "parse_benchmark_file" /\ l = "DCache Miss"
                            THEN measurements[Len(measurements)]
                            ELSE current
              IN  /\ KeyOf(l) \in DOMAIN target
                  /\ target[KeyOf(l)] = MaxOf(RawOf(LastLine) - calibration[KeyOf(l)], 0)

\* a returned record holds 0 for a line whose raw value is below the overhead
C1_Witness ==
    /\ pc = "parsed"
    /\ Len(measurements) = 1
    /\ \E l \in Labels :
          /\ IsMetricLineOf(LastLine, l)
          /\ RawOf(LastLine) < calibration[KeyOf(l)]
          /\ KeyOf(l) \in DOMAIN measurements[1]
          /\ measurements[1][KeyOf(l)] = 0

(***************************************************************************)
(* C5: in parse_pmu_metrics, inside a profile block, a metric line sets    *)
(* its metric from the number on the line whether or not the extra word    *)
(* "Count" stands between the label and the colon; this holds for all four *)
(* labels.                                                                 *)
(***************************************************************************)
C5_LabelTolerance ==
    (pc = "parsing" /\ parser = "parse_pmu_metrics" /\ lines # <<>> /\ BlockOpen) =>
        \A l \in Labels, v \in RawVals, e \in BOOLEAN :
            LastLine = MetricLine(l, e, 1, v) =>
                /\ KeyOf(l) \in DOMAIN current
                /\ current[KeyOf(l)] = MaxOf(v - calibration[KeyOf(l)], 0)

\* "Cycle Count Count: v" was read inside a block and set the cycle metric
C5_Witness ==
    /\ pc = "parsing" /\ parser = "parse_pmu_metrics" /\ lines # <<>> /\ BlockOpen
    /\ \E v \in RawVals :
          /\ LastLine = MetricLine("Cycle Count", TRUE, 1, v)
          /\ v > calibration["cycle"]
          /\ "cycle" \in DOMAIN current
          /\ current["cycle"] = v - calibration["cycle"]

(***************************************************************************)
(* C8: when plot_inheritance_metrics is called with an empty measurement   *)
(* list, every robust, median, min and max value it returns is 0.          *)
(***************************************************************************)
C8_EmptySeriesAllZero ==
    (pc \in {"aggregated", "done"} /\ measurements = <<>>) =>
        \A k \in Keys :
            /\ summary[k].robust = Zero
            /\ summary[k].median = Zero
            /\ summary[k].min = 0
            /\ summary[k].max = 0

(***************************************************************************)
(* C3: the sample log (two blocks, Cycle Count 100 and 200, ICache Miss 10 *)
(* and 20) with calibration cycle=50, icache=5 yields the cycle series     *)
(* [50, 150] and the icache series [5, 15]; the cycle aggregate has        *)
(* min=50, max=150, absolute jitter 100 and median 100.                    *)
(***************************************************************************)
C3_RoundTrip ==
    (pc = "done" /\ lines = SampleText /\ calibration = SampleCal) =>
        /\ measurements = <<[cycle |-> 50, icache |-> 5], [cycle |-> 150, icache |-> 15]>>
        /\ summary["cycle"].min = 50
        /\ summary["cycle"].max = 150
        /\ jitter.abs = 100
        /\ summary["cycle"].median = [kind |-> "num", num |-> 100, den |-> 1]

\* the pipeline has run to its end on the sample log with the sample calibration
C3_Witness ==
    /\ pc = "done" /\ lines = SampleText /\ calibration = SampleCal
    /\ Len(measurements) = 2
    /\ jitter.abs = 100

(***************************************************************************)
(* C4: parse_pmu_metrics preserves block order: when the file has N >= 1   *)
(* delimiter lines and every block (the lines from a delimiter to the next *)
(* one or to the end) has a recognised metric line, the returned list has  *)
(* N records and the i-th record holds, for each metric of the i-th block, *)
(* the corrected value of that metric's last line in the block.            *)
(***************************************************************************)
DelimPositions == {i \in 1..Len(lines) : IsDelimLine(lines[i])}
NthDelim(i) ==
    CHOOSE d \in DelimPositions : Cardinality({e \in DelimPositions : e < d}) = i - 1
BlockRange(i) ==
    (NthDelim(i) + 1) ..
        (IF i < Cardinality(DelimPositions) THEN NthDelim(i + 1) - 1 ELSE Len(lines))
LinesOf(i, label) == {j \in BlockRange(i) : IsMetricLineOf(lines[j], label)}
LastOf(S) == CHOOSE j \in S : \A k \in S : k <= j
ExpectedRecord(i) ==
    [k \in {KeyOf(l) : l \in {m \in Labels : LinesOf(i, m) # {}}} |->
        LET l == CHOOSE m \in Labels : KeyOf(m) = k
        IN  MaxOf(RawOf(lines[LastOf(LinesOf(i, l))]) - calibration[k], 0)]
AllBlocksFilled ==
    /\ DelimPositions # {}
    /\ \A i \in 1..Cardinality(DelimPositions) : \E l \in Labels : LinesOf(i, l) # {}

C4_BlockOrder ==
    (pc = "parsed" /\ parser = "parse_pmu_metrics" /\ AllBlocksFilled) =>
        /\ Len(measurements) = Cardinality(DelimPositions)
        /\ \A i \in 1..Cardinality(DelimPositions) : measurements[i] = ExpectedRecord(i)

\* three filled blocks were parsed into three records, the first unlike the last
C4_Witness ==
    /\ pc = "parsed" /\ parser = "parse_pmu_metrics" /\ AllBlocksFilled
    /\ Cardinality(DelimPositions) = 3
    /\ Len(measurements) = 3
    /\ measurements[1] # measurements[3]

(***************************************************************************)
(* Vocabulary of the statistics properties: the series as a bag of         *)
(* positions, without sorting.                                             *)
(***************************************************************************)
Positions == 1..Len(values)
SeriesMin == CHOOSE m \in {values[i] : i \in Positions} : \A i \in Positions : m <= values[i]
SeriesMax == CHOOSE m \in {values[i] : i \in Positions} : \A i \in Positions : m >= values[i]

RECURSIVE DropSmallest(_, _)
DropSmallest(S, k) ==
    IF k = 0 \/ S = {} THEN S
    ELSE LET i == CHOOSE a \in S : \A b \in S : values[a] <= values[b]
         IN  DropSmallest(S \ {i}, k - 1)

RECURSIVE DropLargest(_, _)
DropLargest(S, k) ==
    IF k = 0 \/ S = {} THEN S
    ELSE LET i == CHOOSE a \in S : \A b \in S : values[a] >= values[b]
         IN  DropLargest(S \ {i}, k - 1)

RECURSIVE SumAt(_)
SumAt(S) == IF S = {} THEN 0 ELSE LET i == CHOOSE a \in S : TRUE IN values[i] + SumAt(S \ {i})

\* floor(n * f) for f = <<a, b>>: the largest k with k * b <= n * a
FloorTimes(n, f) == CHOOSE k \in 0..(n * f[1]) : k * f[2] <= n * f[1] /\ (k + 1) * f[2] > n * f[1]

\* the reference trimmed mean of the series for trim fraction f, as a pair
\* <<sum, count>> of the kept values
ReferenceTrimmed(f) ==
    LET n == Len(values)
        k == FloorTimes(n, f)
        kept == IF n - 2 * k <= 0 THEN Positions
                ELSE DropLargest(DropSmallest(Positions, k), k)
    IN  <<SumAt(kept), Cardinality(kept)>>

\* the number x equals the fraction a/b (b > 0)
EqualsFraction(x, a, b) == x.kind = "num" /\ x.num * b = a * x.den

(***************************************************************************)
(* C7: robust_average(values, f) equals the reference trimmed mean for     *)
(* every non-empty sequence and every trim fraction f: with k = floor(n*f),*)
(* the mean of all n values if n - 2k <= 0, otherwise the mean of the      *)
(* values left after removing the k smallest and the k largest.            *)
(***************************************************************************)
C7_TrimmedMean ==
    (pc = "done" /\ stats.by = "robust_average") =>
        LET ref == ReferenceTrimmed(trim_fraction)
        IN  EqualsFraction(stats.result, ref[1], ref[2])

\* an unsorted series was trimmed by at least one value at each end and the
\* result differs from the plain mean
C7_Witness ==
    /\ pc = "done" /\ stats.by = "robust_average"
    /\ FloorTimes(Len(values), trim_fraction) >= 1
    /\ Len(values) - 2 * FloorTimes(Len(values), trim_fraction) > 0
    /\ values[1] > values[Len(values)]
    /\ ~EqualsFraction(stats.result, SumAt(Positions), Len(values))

(***************************************************************************)
(* C9: jitter percent is exactly 0 whenever the average it is divided by   *)
(* is 0, in particular when every value of the series is 0, in the jitter  *)
(* computations of main (context switching), plot_cycle_jitter and         *)
(* compute_statistics.                                                     *)
(***************************************************************************)
JitterPctOf(st) == IF st.by = "compute_statistics" THEN st.jitter ELSE st.jitter_pct
DivisorIsZero ==
    IF stats.by = "plot_cycle_jitter"
    THEN ReferenceTrimmed(DefaultTrim)[1] = 0
    ELSE SumAt(Positions) = 0

C9_JitterZeroAverage ==
    (pc = "done" /\ stats.by \in {"main", "plot_cycle_jitter", "compute_statistics"}
        /\ ~stats.skipped) =>
        /\ DivisorIsZero => JitterPctOf(stats) = [kind |-> "num", num |-> 0, den |-> 1]
        /\ (\A i \in Positions : values[i] = 0) =>
               JitterPctOf(stats) = [kind |-> "num", num |-> 0, den |-> 1]
        /\ JitterPctOf(stats).kind = "num"

\* plot_cycle_jitter met a trimmed mean of 0 on a series whose range is not 0
C9_Witness ==
    /\ pc = "done" /\ stats.by = "plot_cycle_jitter"
    /\ values # <<>>
    /\ ReferenceTrimmed(DefaultTrim)[1] = 0
    /\ stats.jitter_abs > 0
    /\ stats.jitter_pct = [kind |-> "num", num |-> 0, den |-> 1]

C2_AdjustedCycleNonNegative ==
    pc = "done" /\ parser = "parse_calibration_file" =>
        \A i \in 1..Len(adjusted) :
            "cycle" \in DOMAIN adjusted[i] => adjusted[i]["cycle"].num >= 0

(***************************************************************************)
(* C6: the calibration readers of task_locking_test and of                 *)
(* pmu_calibration/analyse.py accept both label forms of the cycle metric: *)
(* the collected cycle overheads are the numbers of all the lines          *)
(* "Cycle Count: n" and "Cycle Count Count: n" read so far, in order.      *)
(***************************************************************************)
IsCycleLine(line) ==
    /\ line # <<>>
    /\ \E e \in BOOLEAN, w \in 0..1, pre \in {<<>>, <<Lit("PMU"), Space>>} :
          line = pre \o MetricLine("Cycle Count", e, w, RawOf(line))
RECURSIVE CycleNumbers(_)
CycleNumbers(ls) ==
    IF ls = <<>> THEN <<>>
    ELSE (IF IsCycleLine(Head(ls)) THEN <<RawOf(Head(ls))>> ELSE <<>>)
            \o CycleNumbers(Tail(ls))

C6_BothCycleLabelForms ==
    (pc = "calibrating" /\ parser \in CalibrationReaders) =>
        overheads["cycle"] = CycleNumbers(lines)

(***************************************************************************)
(* Vocabulary of the runs of main: the RTOS of the last iteration and its  *)
(* files.                                                                  *)
(***************************************************************************)
IterationDone == current # "" /\ parser \in {"inheritance_test", "critical_section_test"}
CurrentTest == fs[TestFile(parser, current)]
IsPairLine(line, label) == line # <<>> /\ line = MetricLine(label, FALSE, 1, RawOf(line))
\* the text has a Time Period Total line after a Relative Time line
HasPair(text) ==
    \E i, j \in 1..Len(text) :
        i < j /\ IsPairLine(text[i], "Relative Time")
              /\ IsPairLine(text[j], "Time Period Total")
\* the last iteration parsed the PMU blocks of its test file
ParsedBlocks ==
    /\ IterationDone
    /\ Exists(fs, TestFile(parser, current))
    /\ parser = "critical_section_test" => HasPair(CurrentTest)

(***************************************************************************)
(* C11: in main of inheritance_test and of "tests auf default"             *)
(* critical_section_test, when the calibration file of an RTOS does not    *)
(* exist, the profile used for it has exactly the four keys, all zero, and *)
(* every corrected value of that RTOS is the number on a line of that      *)
(* metric in its test file.                                                *)
(***************************************************************************)
C11_MissingCalibrationIsZero ==
    (ParsedBlocks /\ ~Exists(fs, CalFile(current))) =>
        /\ DOMAIN calibration = Keys
        /\ \A k \in Keys : calibration[k] = 0
        /\ \A i \in 1..Len(measurements) : \A k \in DOMAIN measurements[i] :
              \E j \in 1..Len(CurrentTest) :
                 /\ IsMetricLineOf(CurrentTest[j], LabelOf(k))
                 /\ measurements[i][k] = 100 * RawOf(CurrentTest[j])

\* an RTOS without calibration file whose record keeps a non-zero raw value,
\* while another RTOS has a calibration file
C11_Witness ==
    /\ ParsedBlocks
    /\ ~Exists(fs, CalFile(current))
    /\ \E r \in {"freertos", "threadx"} : Exists(fs, CalFile(r))
    /\ Len(measurements) = 1
    /\ \E k \in DOMAIN measurements[1] : measurements[1][k] = 100 * MaxRaw

(***************************************************************************)
(* C12: in main of default_tests/context_switching_test a missing input    *)
(* file (the test log of an RTOS, or calibration_stats.csv) is never       *)
(* fatal: the run does not end with an exception raised by opening an      *)
(* input file for reading.                                                 *)
(***************************************************************************)
C12_MissingInputNotFatal ==
    (parser = "context_switching_test" /\ pc = "done") => raised.mode # "r"

(***************************************************************************)
(* C13: an empty metric series never raises: in main of                    *)
(* task_synchronisation_coop_test, when the log of an RTOS has test blocks *)
(* but no sample of some metric, summary_stats returns default statistics  *)
(* and main goes on to the summary output: the run does not end with a     *)
(* ValueError.                                                             *)
(***************************************************************************)
C13_EmptySeriesNeverRaises ==
    parser = CoopScript => raised.exc # "ValueError"

(***************************************************************************)
(* C14: aggregation does not depend on the order of the records: for every *)
(* series and every reordering of it, robust_average returns the same      *)
(* value and compute_stats the same (average, min, max).                   *)
(***************************************************************************)
C14_OrderIndependent ==
    (pc = "done" /\ stats.by = "aggregate") =>
        /\ stats.robust_reordered = stats.robust
        /\ stats.computed_reordered = stats.computed

\* a series that is trimmed, given in an order that is not ascending and
\* aggregated after being put into a different order
C14_Witness ==
    /\ pc = "done"
    /\ stats.by = "aggregate"
    /\ measurements # values
    /\ TrimCount(Len(values), trim_fraction) >= 1
    /\ Len(values) > 2 * TrimCount(Len(values), trim_fraction)
    /\ values # Sort(values)
    /\ PyMin(values) < PyMax(values)

(***************************************************************************)
(* C15: parse_calibration_file of inheritance_test returns a profile with  *)
(* exactly the keys cycle, icache, dcache_access and dcache_miss; a key    *)
(* whose label matched at least one line holds the mean of its matched     *)
(* values after a tenth of them (rounded down) is dropped at each end of   *)
(* the sorted values, rounded to the nearest hundredth; a key without a    *)
(* match holds 0.0.  Profile values are held in hundredths.                *)
(***************************************************************************)
ValuesOfLabel(label) ==
    LET matched == SelectSeq(lines, LAMBDA l : IsMetricLineOf(l, label))
    IN  [i \in 1..Len(matched) |-> RawOf(matched[i])]

TenPercentTrimmed(vals) ==
    LET n == Len(vals)
        k == n \div 10
    IN  SubSeq(Sort(vals), k + 1, n - k)

IsNearestHundredth(r, total, count) ==
    LET diff == 100 * total - r * count
    IN  2 * (IF diff < 0 THEN 0 - diff ELSE diff) <= count

C15_CalibrationProfile ==
    pc = "calibrated" =>
        /\ DOMAIN calibration = Keys
        /\ \A k \in Keys :
              LET kept == TenPercentTrimmed(ValuesOfLabel(LabelOf(k)))
              IN  IF ValuesOfLabel(LabelOf(k)) = <<>>
                  THEN calibration[k] = 0
                  ELSE IsNearestHundredth(calibration[k], Sum(kept), Len(kept))

\* ten cycle values of which the largest and the smallest are dropped, a mean
\* of 1/8 of the overhead that is not a whole number of hundredths, one key
\* read from a "Count:" line and one key without a match
C15_Witness ==
    /\ pc = "calibrated"
    /\ Len(ValuesOfLabel("Cycle Count")) = 10
    /\ Sum(ValuesOfLabel("Cycle Count")) = 2 * MaxCal
    /\ calibration["cycle"] = 12 * MaxCal
    /\ calibration["icache"] = 100 * MaxCal
    /\ ValuesOfLabel("DCache Miss") = <<>>
    /\ calibration["dcache_miss"] = 0

(***************************************************************************)
(* C16: the output directory exists before the first file is written into  *)
(* it: main of context_switching_test never fails to open a file for       *)
(* writing because the directory 'plot' is absent.                         *)
(***************************************************************************)
C16_OutputDirectoryCreated ==
    (parser = "context_switching_test" /\ pc = "done") =>
        ~(raised.exc = "FileNotFoundError" /\ raised.mode = "w")

(***************************************************************************)
(* C17: main of task_synchronisation_preempt_test subtracts from each PMU  *)
(* metric present in a measurement the overhead of that same metric in the *)
(* calibration profile of the RTOS: 'cycle' from cycle_count, 'icache'     *)
(* from icache_miss, 'dcache_access' from dcache_access and 'dcache_miss'  *)
(* from dcache_miss, clamped at zero.                                      *)
(***************************************************************************)
OwnOverhead(key) ==
    CASE key = "cycle_count" -> "cycle"
      [] key = "icache_miss" -> "icache"
      [] key = "dcache_access" -> "dcache_access"
      [] key = "dcache_miss" -> "dcache_miss"

C17_OwnOverheadSubtracted ==
    (parser = PreemptScript /\ current # "" /\ Exists(fs, TestFile(PreemptScript, current))) =>
        LET raw == fs[TestFile(PreemptScript, current)]
        IN  /\ Len(measurements) = Len(raw)
            /\ \A i \in 1..Len(raw) :
                  \A k \in {"cycle_count", "icache_miss", "dcache_access", "dcache_miss"} :
                     raw[i][k] # NanCount =>
                        measurements[i][k] =
                           Clamp(100 * raw[i][k] - Get(calibration, OwnOverhead(k), 0))

(***************************************************************************)
(* C18: in task_locking_test the calibration of an RTOS is found by a name *)
(* key that ignores letter case: when the system prefix of a calibration   *)
(* file and that of a test file differ at most in case, the profiles of    *)
(* the test are adjusted with that calibration.                            *)
(***************************************************************************)
C18_CaseInsensitiveKey ==
    (parser = LockScript /\ pc = "done") =>
        \A f \in Glob(fs, CalibSuffix), g \in Glob(fs, TestSuffix) :
            Lower(SystemOf(f)) = Lower(SystemOf(g)) =>
                adjusted[SystemOf(g)] =
                    [i \in 1..Len(fs[g]) |->
                        AdjustProfile(fs[g][i], lock_parse_calibration_file(fs[f]))]

(***************************************************************************)
(* C19: the block parsers treat empty blocks inconsistently.  A delimiter  *)
(* line followed by another delimiter line with no recognised metric line  *)
(* in between yields an empty record; a last delimiter with no recognised  *)
(* metric line before the end of the file yields nothing.  The number of   *)
(* returned records is the number of delimiter lines, less one exactly     *)
(* when the last block is empty.                                           *)
(***************************************************************************)
DelimiterIndices == {i \in 1..Len(lines) : IsDelimLine(lines[i])}

IsRecognisedMetric(line) == \E l \in Labels : IsMetricLineOf(line, l)

\* no recognised metric line between the delimiter at i and the next
\* delimiter or the end of the file
EmptyBlockAt(i) ==
    \A j \in (i + 1)..Len(lines) :
        IsRecognisedMetric(lines[j]) => \E d \in DelimiterIndices : i < d /\ d < j

LastDelimiter == CHOOSE i \in DelimiterIndices : \A d \in DelimiterIndices : d <= i

\* the position of the delimiter at i among the delimiters
BlockNumber(i) == Cardinality({d \in DelimiterIndices : d <= i})

RelOn(i) ==
    IF ContainsLabel(Strip(lines[i]), "Relative Time")
    THEN ReSearchPlain(Strip(lines[i]), "Relative Time") ELSE NoMatch

TptOn(i) ==
    IF ContainsLabel(Strip(lines[i]), "Time Period Total")
    THEN ReSearchPlain(Strip(lines[i]), "Time Period Total") ELSE NoMatch

\* the line of the most recent Relative Time value at the Time Period Total
\* value of line j that no Time Period Total value has followed yet, or 0
RelFor(j) ==
    LET cand == {i \in 1..j : /\ RelOn(i) # NoMatch
                              /\ \A k \in i..(j - 1) : TptOn(k) = NoMatch
                              /\ \A k \in (i + 1)..j : RelOn(k) = NoMatch}
    IN  IF cand = {} THEN 0 ELSE CHOOSE i \in cand : TRUE

PairedLines ==
    SelectSeq([j \in 1..Len(lines) |-> j], LAMBDA j : TptOn(j) # NoMatch /\ RelFor(j) # 0)

C20_Pairing ==
    parser \in PairParsers =>
        /\ Len(relative_times) = Len(processing_times)
        /\ relative_times = [n \in 1..Len(PairedLines) |-> RelOn(RelFor(PairedLines[n]))]
        /\ processing_times = [n \in 1..Len(PairedLines) |-> TptOn(PairedLines[n])]
        /\ \A m, n \in 1..Len(PairedLines) :
              RelFor(PairedLines[m]) = RelFor(PairedLines[n]) => m = n

\* a Relative Time of 0 paired, a second Time Period Total dropped, a
\* Relative Time overwritten by a later one before its pair, all in one file
C20_Witness ==
    /\ pc = "paired"
    /\ lines = <<RelLine(0), TptLine(MaxRaw), TptLine(0), RelLine(MaxRel)>>
    /\ relative_times = <<0>>
    /\ processing_times = <<MaxRaw>>
    /\ current_rel = MaxRel

(***************************************************************************)
(* C21: in default_tests/critical_section_test a profile block without a   *)
(* Cycle Count line does not abort the run: main never stops on a missing  *)
(* 'cycle' key.                                                            *)
(***************************************************************************)
C21_SparseRecordNotFatal ==
    parser = DefaultCriticalScript => raised.exc # "KeyError"

(***************************************************************************)
(* C22: in the summary of task_synchronisation_preempt_test the RAW rows   *)
(* are the statistics of the parsed counter values as they are in the log, *)
(* and the CORRECTED rows hold min, max and robust_avg of the RAW row less *)
(* the calibration overhead of the metric: the overhead is subtracted      *)
(* exactly once.  Values are in hundredths.                                *)
(***************************************************************************)
ParsedValues(r, key) ==
    IF Exists(fs, TestFile(PreemptScript, r))
    THEN LET present == PreemptValues(fs[TestFile(PreemptScript, r)], key)
         IN  [i \in 1..Len(present) |->
                 IF key = "time_period_total" THEN present[i] ELSE 100 * present[i]]
    ELSE <<>>

C22_OverheadSubtractedOnce ==
    (parser = PreemptScript /\ pc = "done" /\ raised = NotRaised) =>
        \A i \in 1..Len(Rtoses) :
           \A k \in {"cycle_count", "icache_miss", "dcache_access", "dcache_miss"} :
              LET vals == ParsedValues(Rtoses[i], k)
                  ov == Get(Get(overheads, Rtoses[i], EmptyDict), OwnOverhead(k), 0)
              IN  vals # <<>> =>
                     /\ summary[i].RAW[k].min = Rat(PyMin(vals), 1)
                     /\ summary[i].RAW[k].max = Rat(PyMax(vals), 1)
                     /\ summary[i].RAW[k].robust_avg = NpMedian(vals)
                     /\ summary[i].CORRECTED[k].min = Rat(PyMin(vals) - ov, 1)
                     /\ summary[i].CORRECTED[k].max = Rat(PyMax(vals) - ov, 1)

(***************************************************************************)
(* C23, as stated: for n <= 2 samples and the default trim fraction 0.1,   *)
(* robust_average takes the fallback branch (n - 2 * trim_count <= 0) and  *)
(* returns the plain arithmetic mean.                                      *)
(***************************************************************************)
DefaultCall == pc = "done" /\ stats.by = "robust_average(values)"

C23_SmallSeriesFallback ==
    (DefaultCall /\ Len(values) \in 1..2) =>
        /\ stats.branch = "fallback"
        /\ EqualsFraction(stats.result, Sum(values), Len(values))

(***************************************************************************)
(* C23, amended: for 1 <= n <= 2 samples and the default trim fraction 0.1 *)
(* the trim count is 0, so robust_average does not take the fallback       *)
(* branch: it averages the whole sorted list, and that is the plain        *)
(* arithmetic mean.                                                        *)
(***************************************************************************)
C23_SmallSeriesUntrimmed ==
    (DefaultCall /\ Len(values) \in 1..2) =>
        /\ stats.trim_count = 0
        /\ stats.branch = "trimmed"
        /\ Len(stats.averaged) = Len(values)
        /\ EqualsFraction(stats.result, Sum(values), Len(values))

\* two different samples, larger first
C23_Witness ==
    /\ DefaultCall
    /\ Len(values) = 2
    /\ values[1] > values[2]
    /\ stats.branch = "trimmed"
    /\ EqualsFraction(stats.result, values[1] + values[2], 2)

(***************************************************************************)
(* C30: for every non-empty sequence of values and the default trim        *)
(* fraction 0.1, the slice robust_average averages is non-empty and the    *)
(* result lies between the minimum and the maximum of the sequence.        *)
(***************************************************************************)
C30_WithinRange ==
    (DefaultCall /\ values # <<>>) =>
        /\ stats.averaged # <<>>
        /\ stats.result.kind = "num"
        /\ PyMin(values) * stats.result.den <= stats.result.num
        /\ stats.result.num <= PyMax(values) * stats.result.den

\* ten values of which the smallest and the largest are dropped, the result
\* strictly inside the range
C30_Witness ==
    /\ DefaultCall
    /\ Len(values) = 10
    /\ stats.trim_count = 1
    /\ Len(stats.averaged) = 8
    /\ PyMin(values) * stats.result.den < stats.result.num
    /\ stats.result.num < PyMax(values) * stats.result.den

(***************************************************************************)
(* C24: in parse_benchmark_file a record that is pending at the end of the *)
(* file with at least one metric set is the last record of the returned    *)
(* list.                                                                   *)
(***************************************************************************)
C24_PendingRecordEmitted ==
    (pc = "parsed" /\ parser = "parse_benchmark_file" /\ Truthy(current)) =>
        /\ measurements # <<>>
        /\ measurements[Len(measurements)] = current

(***************************************************************************)
(* C25: in parse_test_file every 'Profile Entry:' / 'Profile Point:' line  *)
(* yields exactly one profile record, holding only the metric lines up to  *)
(* the next blank line or the next delimiter line: the file has as many    *)
(* profile records as delimiter lines, also when two profile blocks are    *)
(* not separated by a blank line.                                          *)
(***************************************************************************)
C25_OneRecordPerDelimiter ==
    (parser \in TestParsers /\ pc = "returned") =>
        Len(data.profiles) = Cardinality(DelimiterIndices)

(***************************************************************************)
(* C26: parse_test_file returns relative_times and locking_ops of equal    *)
(* length for every input, the i-th locking_ops value belonging to the     *)
(* i-th relative-time marker.                                              *)
(***************************************************************************)
C26_TimesAndOpsAligned ==
    (parser \in TestParsers /\ pc = "returned") =>
        Len(data.relative_times) = Len(data.locking_ops)

(***************************************************************************)
(* C27: in specific_snychronisation_test, when the relative-time markers   *)
(* of the two files of an RTOS differ, main warns and continues: it uses   *)
(* the markers of the specific-mechanism file, appends the summary entry   *)
(* of the RTOS, and plot_sync_comparison cuts the markers and both value   *)
(* series to the common length n, the least of the three lengths.          *)
(***************************************************************************)
BothFiles == Exists(fs, OptiFile(current)) /\ Exists(fs, RefFile(current))
OptiParsed == parse_overall_performance(fs[OptiFile(current)])
RefParsed == parse_overall_performance(fs[RefFile(current)])
MarkersDiffer == OptiParsed.relative_times # RefParsed.relative_times
Warned == \E i \in 1..Len(written) :
             written[i] = <<"stdout", "Warning: Relative time markers differ", current>>

IsPrefix(short, long) ==
    Len(short) <= Len(long) /\ \A i \in 1..Len(short) : short[i] = long[i]

C27_MarkersDifferContinue ==
    (parser = SyncScript /\ pc = "main" /\ current # "" /\ BothFiles /\ MarkersDiffer) =>
        /\ Warned
        /\ raised = NotRaised
        /\ results # <<>>
        /\ results[Len(results)].rtos = Capitalize(current)
        /\ Len(measurements.rel_times) = Len(measurements.opti_vals)
        /\ Len(measurements.opti_vals) = Len(measurements.ref_vals)
        /\ \/ Len(measurements.rel_times) = Len(OptiParsed.relative_times)
           \/ Len(measurements.rel_times) = Len(OptiParsed.processing_times)
           \/ Len(measurements.rel_times) = Len(RefParsed.processing_times)
        /\ IsPrefix(measurements.rel_times, OptiParsed.relative_times)
        /\ IsPrefix(measurements.opti_vals, OptiParsed.processing_times)
        /\ IsPrefix(measurements.ref_vals, RefParsed.processing_times)

\* the reference file holds fewer pairs than the specific-mechanism file and
\* other markers: the plotted series are cut to its length
C27_Witness ==
    /\ parser = SyncScript /\ pc = "main" /\ current # "" /\ BothFiles /\ MarkersDiffer
    /\ Warned
    /\ Len(RefParsed.processing_times) = 1
    /\ Len(OptiParsed.processing_times) = 2
    /\ Len(measurements.rel_times) = 1
    /\ measurements.rel_times[1] # RefParsed.relative_times[1]
    /\ todo # <<>>

(***************************************************************************)
(* C28                                                                     *)
(***************************************************************************)
\* What each line of the file stands for, read off its text: the number a
\* reader of the file takes as its Time Period Total under the given
\* script, <<>> when the script has no number for it.
TotalOfLine(script, line) ==
    CASE line = TotalLine("Time Period Total:", <<" ", "1", "2">>) -> <<Rat(12, 1)>>
      [] line = TotalLine("Time Period Total:", <<" ", "1", ".", "2">>) ->
            IF script = RegexAnalyser THEN <<Rat(6, 5)>> ELSE <<>>
      [] line = TotalLine("Time Period Total:", <<"2", " ", ":", "1">>) -> <<Rat(2, 1)>>
      [] line = TotalLine("time period total:", <<" ", "2">>) ->
            IF script = RegexAnalyser THEN <<Rat(2, 1)>> ELSE <<>>
      [] OTHER -> <<>>

\* lines that carry the label and a value field that is not a number
UnconvertibleLines(script) ==
    {TotalLine("Time Period Total:", <<" ", "1", ".", "2", ".", "0">>),
     TotalLine("Time Period Total:", <<" ", ".">>)}
    \cup (IF script = SplitAnalyser
          THEN {TotalLine("Time Period Total:", <<" ", "1", ".", "2">>),
                TotalLine("Time Period Total:", <<" ", "x">>)}
          ELSE {})

RECURSIVE TotalsOf(_, _)
TotalsOf(script, ls) ==
    IF ls = <<>> THEN <<>>
    ELSE TotalOfLine(script, Head(ls)) \o TotalsOf(script, Tail(ls))

\* C28: a Time Period Total line whose value cannot be converted is skipped
\* as a single field: parse_time_period_totals raises nothing, and the
\* totals are the values of all the other matching lines read so far, in
\* file order.
C28_UnconvertibleSkipped ==
    parser \in {RegexAnalyser, SplitAnalyser} =>
        /\ raised = NotRaised
        /\ values = TotalsOf(parser, lines)

\* a file with an unconvertible value between two convertible ones
C28_Witness ==
    /\ parser \in {RegexAnalyser, SplitAnalyser}
    /\ pc = "done"
    /\ Len(lines) = 3
    /\ lines[2] \in UnconvertibleLines(parser)
    /\ TotalOfLine(parser, lines[1]) # <<>>
    /\ TotalOfLine(parser, lines[3]) # <<>>
    /\ Len(values) = 2

(***************************************************************************)
(* C29                                                                     *)
(***************************************************************************)
\* the label analyse.py writes for the name a main looks up
CsvLabelOf(rtos) ==
    CASE rtos = "freertos" -> "FreeRTOS"
      [] rtos = "threadx" -> "ThreadX"
      [] rtos = "zephyr" -> "Zephyr"

\* the mean of the Cycle Count values of the log of a label, to two
\* decimals, in hundredths: the number analyse.py writes for the label
WrittenMean(label) ==
    LET file == CHOOSE i \in 1..Len(AnalyseFiles) : AnalyseFiles[i].rtos = label
    IN  Round2(Mean(CycleCounts(fs[AnalyseFiles[file].filename])))

CsvRead == parser = AnalyseScript /\ pc = "loop"

\* C29: once the CSV analyse.py wrote has been read, the calibration holds,
\* under each of the names freertos, threadx and zephyr, the mean written
\* for the label FreeRTOS, ThreadX and Zephyr, and every lookup a main has
\* made returned that entry, not the default.
C29_CalibrationRoundTrip ==
    CsvRead =>
        /\ \A r \in RtosSet :
              /\ r \in DOMAIN overheads
              /\ overheads[r].cycle = WrittenMean(CsvLabelOf(r))
        /\ \A i \in 1..Len(results) :
              results[i].cycle = WrittenMean(CsvLabelOf(Rtoses[i]))

\* the three lookups made, on three different means, one of them rounded
C29_Witness ==
    /\ CsvRead
    /\ todo = <<>>
    /\ Len(results) = 3
    /\ results[1].cycle = 33
    /\ results[2].cycle = 100
    /\ results[3].cycle = 50

====
